---- MODULE Spec2Model ----
(***************************************************************************)
(* A model of the htkl template language: the tree-walking evaluator       *)
(* (eval/eval.go), the runtime values and scopes it works on              *)
(* (runtime/value.go, runtime/scope.go) and the lexer that feeds the       *)
(* parser (parser/lexer.go).                                               *)
(*                                                                         *)
(* Arrays, objects, scopes and the scope registries are heap entities in   *)
(* the source (Go pointers and maps).  The model keeps them in sequences   *)
(* indexed by an identity, so that aliasing and in-place mutation behave   *)
(* as in the source.                                                       *)
(***************************************************************************)
EXTENDS Integers, Sequences, FiniteSets, TLC

(***************************************************************************)
(* Bounds of the model.                                                    *)
(***************************************************************************)
MaxItems == 2    \* longest template / block body that is enumerated
MaxElems == 2    \* longest iterable array that is enumerated
MaxInput == 3    \* longest lexer input that is enumerated

(***************************************************************************)
(* Go maps (map[string]T): a sequence of key/value pairs, one per key.     *)
(***************************************************************************)
MapHas(m, k) == \E i \in 1..Len(m) : m[i].k = k

MapGet(m, k) == m[CHOOSE i \in 1..Len(m) : m[i].k = k].v

MapSet(m, k, v) ==
    IF MapHas(m, k)
    THEN [i \in 1..Len(m) |-> IF m[i].k = k THEN [k |-> k, v |-> v] ELSE m[i]]
    ELSE Append(m, [k |-> k, v |-> v])

MapKeys(m) == {m[i].k : i \in 1..Len(m)}

(***************************************************************************)
(* runtime.Value.  Arrays and objects are pointers: n is the identity of   *)
(* the container in the heap.  NilValue is the nil interface.              *)
(***************************************************************************)
NewString(s) == [t |-> "string", n |-> 0, s |-> s, b |-> FALSE]

NewNumber(n) == [t |-> "number", n |-> n, s |-> "", b |-> FALSE]

NewBool(b) == [t |-> "bool", n |-> 0, s |-> "", b |-> b]

NewNull == [t |-> "null", n |-> 0, s |-> "", b |-> FALSE]

ArrayValue(id) == [t |-> "array", n |-> id, s |-> "", b |-> FALSE]

ObjectValue(id) == [t |-> "object", n |-> id, s |-> "", b |-> FALSE]

NilValue == [t |-> "nil", n |-> 0, s |-> "", b |-> FALSE]

(***************************************************************************)
(* Errors.  msg is the innermost message, wrap counts the "include"        *)
(* wrappers around it, typed tells an *EvalError (errorf) from a plain     *)
(* error value (fmt.Errorf, errors.New).                                   *)
(***************************************************************************)
NoErr == [msg |-> "", wrap |-> 0, typed |-> FALSE]

errorf(msg) == [msg |-> msg, wrap |-> 0, typed |-> TRUE]

Errorf(msg) == [msg |-> msg, wrap |-> 0, typed |-> FALSE]

\* not an error value: the run-time panic of a method call on a nil interface
\* (invalid memory address or nil pointer dereference), which unwinds every
\* caller and ends the program
runtimePanic == [msg |-> "panic: nil pointer dereference", wrap |-> 0, typed |-> FALSE]

breakSignal == Errorf("break")

(***************************************************************************)
(* The evaluation store: heap of containers, scopes, scope registries      *)
(* and the documents of the documentCollector.                             *)
(***************************************************************************)
EmptyStore ==
    [heap |-> <<>>, scopes |-> <<>>, maps |-> <<>>, documents |-> <<>>,
     order |-> "forward"]

R(st, val, err) == [st |-> st, val |-> val, err |-> err]

Ok(st, val) == R(st, val, NoErr)

Fail(st, err) == R(st, NilValue, err)

Alloc(st, kind) ==
    [st |-> [st EXCEPT !.heap = Append(@, [kind |-> kind, elems |-> <<>>, fields |-> <<>>])],
     id |-> Len(st.heap) + 1]

ObjectGet(st, id, key) ==
    IF MapHas(st.heap[id].fields, key)
    THEN [ok |-> TRUE, val |-> MapGet(st.heap[id].fields, key)]
    ELSE [ok |-> FALSE, val |-> NilValue]

ObjectSet(st, id, key, val) ==
    [st EXCEPT !.heap[id].fields = MapSet(@, key, val)]

ArrayAppend(st, id, vals) ==
    [st EXCEPT !.heap[id].elems = @ \o vals]

addDocument(st, val) ==
    [st EXCEPT !.documents = Append(@, val)]

IsTruthy(st, v) ==
    CASE v.t = "string" -> v.s # ""
      [] v.t = "number" -> v.n # 0
      [] v.t = "bool"   -> v.b
      [] v.t = "null"   -> FALSE
      [] v.t = "array"  -> Len(st.heap[v.n].elems) > 0
      [] v.t = "object" -> Len(st.heap[v.n].fields) > 0

(***************************************************************************)
(* runtime.Scope.  parent = 0 is the nil parent; globals, funcs and        *)
(* templates are the identities of the maps the scope points at.           *)
(***************************************************************************)
NewMap(st) ==
    [st |-> [st EXCEPT !.maps = Append(@, <<>>)], id |-> Len(st.maps) + 1]

Link(st, s, other) ==
    [st EXCEPT !.scopes[s].templates = st.scopes[other].templates,
               !.scopes[s].globals   = st.scopes[other].globals,
               !.scopes[s].funcs     = st.scopes[other].funcs]

NewScope(st, parent) ==
    LET g  == NewMap(st)
        f  == NewMap(g.st)
        t  == NewMap(f.st)
        id == Len(st.scopes) + 1
        s1 == [t.st EXCEPT !.scopes = Append(@,
                  [parent |-> parent, vars |-> <<>>,
                   globals |-> g.id, funcs |-> f.id, templates |-> t.id])]
    IN [st |-> IF parent # 0 THEN Link(s1, id, parent) ELSE s1, id |-> id]

RECURSIVE Get(_, _, _)
Get(st, s, name) ==
    IF MapHas(st.scopes[s].vars, name)
    THEN [ok |-> TRUE, val |-> MapGet(st.scopes[s].vars, name)]
    ELSE IF st.scopes[s].parent # 0
    THEN Get(st, st.scopes[s].parent, name)
    ELSE IF MapHas(st.maps[st.scopes[s].globals], name)
    THEN [ok |-> TRUE, val |-> MapGet(st.maps[st.scopes[s].globals], name)]
    ELSE [ok |-> FALSE, val |-> NilValue]

Set(st, s, name, val) ==
    [st EXCEPT !.scopes[s].vars = MapSet(@, name, val)]

SetGlobal(st, s, name, val) ==
    [st EXCEPT !.maps[st.scopes[s].globals] = MapSet(@, name, val)]

\* faulty variant of DefineTemplate: only the first template of a scope is kept
DefineTemplate_FirstOnly(st, s, name, tmpl) ==
    IF st.maps[st.scopes[s].templates] # <<>> THEN st
    ELSE [st EXCEPT !.maps[st.scopes[s].templates] = MapSet(@, name, tmpl)]

DefineTemplate(st, s, name, tmpl) ==
    [st EXCEPT !.maps[st.scopes[s].templates] = MapSet(@, name, tmpl)]

RECURSIVE GetTemplate(_, _, _)
GetTemplate(st, s, name) ==
    IF MapHas(st.maps[st.scopes[s].templates], name)
    THEN [ok |-> TRUE, tmpl |-> MapGet(st.maps[st.scopes[s].templates], name)]
    ELSE IF st.scopes[s].parent # 0
    THEN GetTemplate(st, st.scopes[s].parent, name)
    ELSE [ok |-> FALSE, tmpl |-> [Name |-> name, Body |-> <<>>]]

NewTemplate(name, body) == [Name |-> name, Body |-> body]

(***************************************************************************)
(* parser AST nodes (parser/ast.go).  Every node is a record of the same   *)
(* shape: s and s2 hold names, keys and operators, n a number, a, b and c  *)
(* the child nodes (a missing child is the empty sequence).                *)
(***************************************************************************)
Node(type, s, s2, n, a, b, c) ==
    [type |-> type, s |-> s, s2 |-> s2, n |-> n, a |-> a, b |-> b, c |-> c]

StringLiteral(v) == Node("StringLiteral", v, "", 0, <<>>, <<>>, <<>>)

NumberLiteral(v) == Node("NumberLiteral", "", "", v, <<>>, <<>>, <<>>)

BooleanLiteral(v) == Node("BooleanLiteral", "", "", IF v THEN 1 ELSE 0, <<>>, <<>>, <<>>)

NullLiteral == Node("NullLiteral", "", "", 0, <<>>, <<>>, <<>>)

CurrentContext == Node("CurrentContext", "", "", 0, <<>>, <<>>, <<>>)

Identifier(name) == Node("Identifier", name, "", 0, <<>>, <<>>, <<>>)

MemberExpression(object, member) ==
    Node("MemberExpression", member, "", 0, <<object>>, <<>>, <<>>)

BinaryOp(left, operator, right) ==
    Node("BinaryOp", operator, "", 0, <<left>>, <<right>>, <<>>)

UnaryOp(operator, operand) == Node("UnaryOp", operator, "", 0, <<operand>>, <<>>, <<>>)

IndexExpression(object, index) ==
    Node("IndexExpression", "", "", 0, <<object>>, <<index>>, <<>>)

CallExpression(function, args) ==
    Node("CallExpression", "", "", 0, <<function>>, args, <<>>)

InterpolatedString(parts) == Node("InterpolatedString", "", "", 0, parts, <<>>, <<>>)

Object(body) == Node("Object", "", "", 0, body, <<>>, <<>>)

Array(body) == Node("Array", "", "", 0, body, <<>>, <<>>)

KeyValueStatement(key, value) ==
    Node("KeyValueStatement", key, "", 0, <<value>>, <<>>, <<>>)

SpreadStatement(operand) == Node("SpreadStatement", "", "", 0, <<operand>>, <<>>, <<>>)

IfStatement(condition, body, else) ==
    Node("IfStatement", "", "", 0, <<condition>>, body, else)

ForStatement(keyVar, valueVar, iterable, body) ==
    Node("ForStatement", keyVar, valueVar, 0, <<iterable>>, body, <<>>)

WithStatement(context, varName, body) ==
    Node("WithStatement", varName, "", 0, <<context>>, body, <<>>)

BreakStatement == Node("BreakStatement", "", "", 0, <<>>, <<>>, <<>>)

ContinueStatement == Node("ContinueStatement", "", "", 0, <<>>, <<>>, <<>>)

LetStatement(name, value) == Node("LetStatement", name, "", 0, <<value>>, <<>>, <<>>)

AssignmentStatement(name, value) ==
    Node("AssignmentStatement", name, "", 0, <<value>>, <<>>, <<>>)

\* context is <<>> (no context argument) or <<expression>>
IncludeExpression(name, context) ==
    Node("IncludeExpression", name, "", 0, context, <<>>, <<>>)

\* the nil Node: what parseStatement and parseValueStatement return, without
\* an error, at a TokenEOF, a TokenEnd or a TokenComment
NilNode == Node("nil", "", "", 0, <<>>, <<>>, <<>>)

Definition(name, body) == [Name |-> name, Body |-> body]

Document(body, definitions) == [Body |-> body, Definitions |-> definitions]

\* the node types that implement expression()
IsExpression(node) ==
    node.type \in {"StringLiteral", "InterpolatedString", "NumberLiteral",
                   "BooleanLiteral", "NullLiteral", "CurrentContext", "Identifier",
                   "MemberExpression", "IndexExpression", "BinaryOp", "UnaryOp",
                   "Object", "Array", "IncludeExpression", "CallExpression"}

\* the node types that implement statement()
IsStatement(node) ==
    \/ IsExpression(node)
    \/ node.type \in {"KeyValueStatement", "SpreadStatement", "IfStatement",
                      "ForStatement", "WithStatement", "BreakStatement",
                      "ContinueStatement", "LetStatement", "AssignmentStatement"}

(***************************************************************************)
(* Conversions of runtime/value.go.  Numbers are modelled as integers.     *)
(***************************************************************************)
Digit == <<"0", "1", "2", "3", "4", "5", "6", "7", "8", "9">>

RECURSIVE FormatFloat(_)
\* strconv.FormatFloat(v, 'f', -1, 64) of an integral value
FormatFloat(n) ==
    IF n < 0 THEN "-" \o FormatFloat(-n)
    ELSE IF n < 10 THEN Digit[n + 1]
    ELSE FormatFloat(n \div 10) \o Digit[(n % 10) + 1]

\* strconv.ParseFloat on the strings the model uses: decimal numerals parse
ParseFloat(s) ==
    IF \E n \in -99..99 : FormatFloat(n) = s
    THEN [ok |-> TRUE, n |-> CHOOSE n \in -99..99 : FormatFloat(n) = s]
    ELSE [ok |-> FALSE, n |-> 0]

runtimeToString(v) ==
    CASE v.t = "string" -> [ok |-> TRUE, s |-> v.s]
      [] v.t = "number" -> [ok |-> TRUE, s |-> FormatFloat(v.n)]
      [] v.t = "bool"   -> [ok |-> TRUE, s |-> IF v.b THEN "true" ELSE "false"]
      [] v.t = "null"   -> [ok |-> TRUE, s |-> "null"]
      [] OTHER          -> [ok |-> FALSE, s |-> ""]

ToNumber(v) ==
    CASE v.t = "number" -> [ok |-> TRUE, n |-> v.n]
      [] v.t = "string" -> ParseFloat(v.s)
      [] v.t = "bool"   -> [ok |-> TRUE, n |-> IF v.b THEN 1 ELSE 0]
      [] v.t = "null"   -> [ok |-> TRUE, n |-> 0]
      [] OTHER          -> [ok |-> FALSE, n |-> 0]

(***************************************************************************)
(* Arithmetic of eval/operators.go.                                        *)
(***************************************************************************)
evalAdd(st, left, right) ==
    IF left.t = "string" \/ right.t = "string"
    THEN IF ~runtimeToString(left).ok THEN Fail(st, Errorf("cannot convert to string"))
         ELSE IF ~runtimeToString(right).ok THEN Fail(st, Errorf("cannot convert to string"))
         ELSE Ok(st, NewString(runtimeToString(left).s \o runtimeToString(right).s))
    ELSE IF ~ToNumber(left).ok \/ ~ToNumber(right).ok
         THEN Fail(st, Errorf("cannot add"))
         ELSE Ok(st, NewNumber(ToNumber(left).n + ToNumber(right).n))

evalSub(st, left, right) ==
    IF ~ToNumber(left).ok \/ ~ToNumber(right).ok
    THEN Fail(st, Errorf("cannot subtract"))
    ELSE Ok(st, NewNumber(ToNumber(left).n - ToNumber(right).n))

evalMul(st, left, right) ==
    IF ~ToNumber(left).ok \/ ~ToNumber(right).ok
    THEN Fail(st, Errorf("cannot multiply"))
    ELSE Ok(st, NewNumber(ToNumber(left).n * ToNumber(right).n))

\* the quotient of the float64 division; the operands the model divides are
\* integers whose quotient is an integer
evalDiv(st, left, right) ==
    IF ~ToNumber(left).ok \/ ~ToNumber(right).ok
    THEN Fail(st, Errorf("cannot divide"))
    ELSE IF ToNumber(right).n = 0 THEN Fail(st, Errorf("division by zero"))
    ELSE Ok(st, NewNumber(ToNumber(left).n \div ToNumber(right).n))

(***************************************************************************)
(* Comparison of runtime/compare.go and eval/operators.go.  Arrays and     *)
(* objects are compared by reference: by the identity of their heap entry. *)
(***************************************************************************)
\* faulty variant of Equal: two containers of one kind are equal
Equal_ByKind(left, right) ==
    /\ left.t = right.t
    /\ CASE left.t = "string" -> left.s = right.s
         [] left.t = "number" -> left.n = right.n
         [] left.t = "bool"   -> left.b = right.b
         [] left.t = "null"   -> TRUE
         [] OTHER             -> TRUE

Equal(left, right) ==
    /\ left.t = right.t
    /\ CASE left.t = "string" -> left.s = right.s
         [] left.t = "number" -> left.n = right.n
         [] left.t = "bool"   -> left.b = right.b
         [] left.t = "null"   -> TRUE
         [] OTHER             -> left = right

evalLess(st, left, right) ==
    IF ~ToNumber(left).ok \/ ~ToNumber(right).ok
    THEN Fail(st, Errorf("cannot compare"))
    ELSE Ok(st, NewBool(ToNumber(left).n < ToNumber(right).n))

evalLessEqual(st, left, right) ==
    IF ~ToNumber(left).ok \/ ~ToNumber(right).ok
    THEN Fail(st, Errorf("cannot compare"))
    ELSE Ok(st, NewBool(ToNumber(left).n <= ToNumber(right).n))

evalGreater(st, left, right) ==
    IF ~ToNumber(left).ok \/ ~ToNumber(right).ok
    THEN Fail(st, Errorf("cannot compare"))
    ELSE Ok(st, NewBool(ToNumber(left).n > ToNumber(right).n))

evalGreaterEqual(st, left, right) ==
    IF ~ToNumber(left).ok \/ ~ToNumber(right).ok
    THEN Fail(st, Errorf("cannot compare"))
    ELSE Ok(st, NewBool(ToNumber(left).n >= ToNumber(right).n))

(***************************************************************************)
(* The evaluator (eval/eval.go).  An evaluator e is [scope, coll]: the     *)
(* identity of its scope and its collector.  A collector is the            *)
(* documentCollector, an array, an object or a singleValueCollector; the   *)
(* last three live in the heap.                                            *)
(***************************************************************************)
documentCollector == [k |-> "document", id |-> 0]

Collector(k, id) == [k |-> k, id |-> id]

Evaluator(scope, coll) == [scope |-> scope, coll |-> coll]

\* faulty variant of setVal: a second value replaces the first
setVal_Overwrite(st, id, v) ==
    Ok([st EXCEPT !.heap[id].elems = <<v>>], NilValue)

setVal(st, id, v) ==
    IF st.heap[id].elems # <<>>
    THEN Fail(st, Errorf("unexpected value, expected only a single value"))
    ELSE Ok([st EXCEPT !.heap[id].elems = <<v>>], NilValue)

evalIdentifier(st, e, n) ==
    IF Get(st, e.scope, n.s).ok
    THEN Ok(st, Get(st, e.scope, n.s).val)
    ELSE Fail(st, errorf("undefined variable"))

evalCurrentContext(st, e, n) ==
    LET c  == Alloc(st, "object")
        cp(s, name) == IF Get(st, e.scope, name).ok
                       THEN ObjectSet(s, c.id, name, Get(st, e.scope, name).val)
                       ELSE s
    IN Ok(cp(cp(cp(c.st, "Release"), "Chart"), "Values"), ObjectValue(c.id))

RECURSIVE Dispatch(_, _, _, _, _, _)

evalExpression(st, e, node) ==
    CASE node.type = "StringLiteral"     -> Ok(st, NewString(node.s))
      [] node.type = "NumberLiteral"     -> Ok(st, NewNumber(node.n))
      [] node.type = "BooleanLiteral"    -> Ok(st, NewBool(node.n = 1))
      [] node.type = "NullLiteral"       -> Ok(st, NewNull)
      [] node.type = "Identifier"        -> evalIdentifier(st, e, node)
      [] node.type = "BinaryOp"          -> Dispatch("evalBinaryOp", st, e, node, 0, 0)
      [] node.type = "MemberExpression"  -> Dispatch("evalMemberExpression", st, e, node, 0, 0)
      [] node.type = "Array"             -> Dispatch("evalArray", st, e, node, 0, 0)
      [] node.type = "Object"            -> Dispatch("evalObject", st, e, node, 0, 0)
      [] node.type = "IncludeExpression" -> Dispatch("collectSingleValue", st, e, node, "include", 0)
      [] node.type = "CurrentContext"    -> evalCurrentContext(st, e, node)
      [] node.type = "InterpolatedString" ->
            Dispatch("evalInterpolatedString", st, e, node, 1, "")
      [] node.type = "UnaryOp"           -> Dispatch("evalUnaryOp", st, e, node, 0, 0)
      [] node.type = "CallExpression"    -> Dispatch("evalCallExpression", st, e, node, 0, 0)
      [] node.type = "IndexExpression"   -> Dispatch("evalIndexExpression", st, e, node, 0, 0)
      [] OTHER ->
            \* errorf(n.GetPos(), ...): a call on the nil interface panics
            IF node = NilNode THEN Fail(st, runtimePanic)
            ELSE Fail(st, errorf("unsupported node type"))

evalStatement(st, e, node) ==
    CASE node.type = "LetStatement"        -> Dispatch("evalLetStatement", st, e, node, 0, 0)
      [] node.type = "AssignmentStatement" -> Dispatch("evalAssignmentStatement", st, e, node, 0, 0)
      [] node.type = "WithStatement"       -> Dispatch("evalWithStatement", st, e, node, 0, 0)
      [] node.type = "ForStatement"        -> Dispatch("evalForStatement", st, e, node, 0, 0)
      [] node.type = "KeyValueStatement"   -> Dispatch("evalKeyValue", st, e, node, 0, 0)
      [] node.type = "SpreadStatement"     -> Dispatch("evalSpreadStatement", st, e, node, 0, 0)
      [] node.type = "IfStatement"         -> Dispatch("evalIfStatement", st, e, node, 0, 0)
      [] node.type = "IncludeExpression"   -> Dispatch("evalIncludeStatement", st, e, node, 0, 0)
      [] node.type # "IncludeExpression" /\ IsExpression(node) ->
            LET r == Dispatch("evalExpression", st, e, node, 0, 0)
            IN IF r.err # NoErr THEN Fail(r.st, r.err)
               ELSE IF e.coll.k = "document"
               THEN Ok(addDocument(r.st, r.val), NilValue)
               ELSE Ok(r.st, NilValue)
      [] OTHER -> Fail(st, errorf("unsupported statement"))

\* faulty variant of evalKeyValue: a key-value at document level always
\* starts a new object document
evalKeyValue_AlwaysNew(st, e, n) ==
    IF e.coll.k = "document"
    THEN LET c  == Alloc(st, "object")
             s1 == addDocument(c.st, ObjectValue(c.id))
             r  == Dispatch("evalValueStatement", s1, e, n.a[1], 0, 0)
         IN IF r.err # NoErr THEN Fail(r.st, r.err)
            ELSE Ok(ObjectSet(r.st, c.id, n.s, r.val), NilValue)
    ELSE IF e.coll.k # "object"
    THEN Fail(st, errorf("key:value pair in non-object context"))
    ELSE LET r == Dispatch("evalValueStatement", st, e, n.a[1], 0, 0)
         IN IF r.err # NoErr THEN Fail(r.st, r.err)
            ELSE Ok(ObjectSet(r.st, e.coll.id, n.s, r.val), NilValue)

evalKeyValue(st, e, n) ==
    IF e.coll.k = "document"
    THEN LET docs == st.documents
             reuse == Len(docs) > 0 /\ docs[Len(docs)].t = "object"
             c   == Alloc(st, "object")
             obj == IF reuse THEN docs[Len(docs)].n ELSE c.id
             s1  == IF reuse THEN st ELSE addDocument(c.st, ObjectValue(c.id))
             r   == Dispatch("evalValueStatement", s1, e, n.a[1], 0, 0)
         IN IF r.err # NoErr THEN Fail(r.st, r.err)
            ELSE Ok(ObjectSet(r.st, obj, n.s, r.val), NilValue)
    ELSE IF e.coll.k # "object"
    THEN Fail(st, errorf("key:value pair in non-object context"))
    ELSE LET r == Dispatch("evalValueStatement", st, e, n.a[1], 0, 0)
         IN IF r.err # NoErr THEN Fail(r.st, r.err)
            ELSE Ok(ObjectSet(r.st, e.coll.id, n.s, r.val), NilValue)

evalValueStatement(st, e, node) ==
    CASE node.type = "IfStatement"   -> Dispatch("collectSingleValue", st, e, node, "if", 0)
      [] node.type = "WithStatement" -> Dispatch("collectSingleValue", st, e, node, "with", 0)
      [] IsExpression(node)          -> Dispatch("evalExpression", st, e, node, 0, 0)
      [] OTHER ->
            \* errorf(node.GetPos(), ...): a call on the nil interface panics
            IF node = NilNode THEN Fail(st, runtimePanic)
            ELSE Fail(st, errorf("unexpected node"))

\* for _, item := range items { if err := e.collectNode(item); err != nil { return err } }
collectNodes(st, e, items, i) ==
    IF i > Len(items) THEN Ok(st, NilValue)
    ELSE LET r == Dispatch("collectNode", st, e, items[i], 0, 0)
         IN IF r.err # NoErr THEN Fail(r.st, r.err)
            ELSE Dispatch("collectNodes", r.st, e, items, i + 1, 0)

evalArray(st, e, node) ==
    LET arr == Alloc(st, "array")
        sub == Evaluator(e.scope, Collector("array", arr.id))
        r   == Dispatch("collectNodes", arr.st, sub, node.a, 1, 0)
    IN IF r.err # NoErr THEN Fail(r.st, r.err) ELSE Ok(r.st, ArrayValue(arr.id))

evalObjectBody(st, sub, items, i) ==
    IF i > Len(items) THEN Ok(st, NilValue)
    ELSE IF ~IsStatement(items[i])
    THEN \* errorf(it.GetPos(), ...) with it the nil Statement of the failed
         \* type assertion
         Fail(st, runtimePanic)
    ELSE LET r == Dispatch("evalStatement", st, sub, items[i], 0, 0)
         IN IF r.err # NoErr THEN Fail(r.st, r.err)
            ELSE Dispatch("evalObjectBody", r.st, sub, items, i + 1, 0)

evalObject(st, e, node) ==
    LET obj == Alloc(st, "object")
        sub == Evaluator(e.scope, Collector("object", obj.id))
        r   == Dispatch("evalObjectBody", obj.st, sub, node.a, 1, 0)
    IN IF r.err # NoErr THEN Fail(r.st, r.err) ELSE Ok(r.st, ObjectValue(obj.id))

collectNode(st, e, node) ==
    IF IsExpression(node)
    THEN LET r == Dispatch("evalExpression", st, e, node, 0, 0)
         IN IF r.err # NoErr THEN Fail(r.st, r.err)
            ELSE CASE e.coll.k = "array" ->
                        Ok(ArrayAppend(r.st, e.coll.id, <<r.val>>), NilValue)
                   [] e.coll.k = "single" -> setVal(r.st, e.coll.id, r.val)
                   [] e.coll.k = "document" -> Ok(addDocument(r.st, r.val), NilValue)
                   [] OTHER -> Fail(r.st, errorf("unexpected value"))
    ELSE IF IsStatement(node) THEN Dispatch("evalStatement", st, e, node, 0, 0)
    ELSE IF node = NilNode THEN Fail(st, runtimePanic)
    ELSE Fail(st, errorf("unsupported node"))

evalIfStatement(st, e, n) ==
    LET cond == Dispatch("evalExpression", st, e, n.a[1], 0, 0)
    IN IF cond.err # NoErr THEN Fail(cond.st, cond.err)
       ELSE Dispatch("collectNodes", cond.st, e,
                         IF IsTruthy(cond.st, cond.val) THEN n.b ELSE n.c, 1, 0)

collectSingleValue(st, e, n, cb) ==
    LET coll == Alloc(st, "single")
        sub  == Evaluator(e.scope, Collector("single", coll.id))
        r    == CASE cb = "include" -> Dispatch("evalIncludeStatement", coll.st, sub, n, 0, 0)
                  [] cb = "if"      -> Dispatch("evalIfStatement", coll.st, sub, n, 0, 0)
                  [] cb = "with"    -> Dispatch("evalWithStatement", coll.st, sub, n, 0, 0)
    IN IF r.err # NoErr THEN Fail(r.st, r.err)
       ELSE IF r.st.heap[coll.id].elems = <<>>
       THEN Fail(r.st, errorf("expected value"))
       ELSE Ok(r.st, r.st.heap[coll.id].elems[1])

evalWithStatement(st, e, n) ==
    LET context == Dispatch("evalExpression", st, e, n.a[1], 0, 0)
    IN IF context.err # NoErr THEN Fail(context.st, context.err)
       ELSE LET newScope == NewScope(context.st, e.scope)
                s1       == Set(newScope.st, newScope.id, n.s, context.val)
                sub      == Evaluator(newScope.id, e.coll)
            IN Dispatch("collectNodes", s1, sub, n.b, 1, 0)

\* faulty variant of evalSpreadStatement: a field the object has is kept
evalSpreadStatement_KeepExisting(st, e, n) ==
    LET r == Dispatch("evalValueStatement", st, e, n.a[1], 0, 0)
    IN IF r.err # NoErr THEN Fail(r.st, r.err)
       ELSE CASE e.coll.k = "array" ->
                   IF r.val.t # "array"
                   THEN Fail(r.st, errorf("cannot spread into array"))
                   ELSE Ok(ArrayAppend(r.st, e.coll.id, r.st.heap[r.val.n].elems),
                           NilValue)
              [] e.coll.k = "object" ->
                   IF r.val.t # "object"
                   THEN Fail(r.st, errorf("cannot spread into object"))
                   ELSE LET src == r.st.heap[r.val.n].fields
                            F[i \in 0..Len(src)] ==
                                IF i = 0 THEN r.st
                                ELSE IF ObjectGet(F[i - 1], e.coll.id, src[i].k).ok THEN F[i - 1]
                                ELSE ObjectSet(F[i - 1], e.coll.id, src[i].k, src[i].v)
                        IN Ok(F[Len(src)], NilValue)
              [] OTHER -> Fail(r.st, errorf("cannot spread into this context"))

evalSpreadStatement(st, e, n) ==
    LET r == Dispatch("evalValueStatement", st, e, n.a[1], 0, 0)
    IN IF r.err # NoErr THEN Fail(r.st, r.err)
       ELSE CASE e.coll.k = "array" ->
                   IF r.val.t # "array"
                   THEN Fail(r.st, errorf("cannot spread into array"))
                   ELSE Ok(ArrayAppend(r.st, e.coll.id, r.st.heap[r.val.n].elems),
                           NilValue)
              [] e.coll.k = "object" ->
                   IF r.val.t # "object"
                   THEN Fail(r.st, errorf("cannot spread into object"))
                   ELSE LET src == r.st.heap[r.val.n].fields
                            F[i \in 0..Len(src)] ==
                                IF i = 0 THEN r.st
                                ELSE ObjectSet(F[i - 1], e.coll.id, src[i].k, src[i].v)
                        IN Ok(F[Len(src)], NilValue)
              [] OTHER -> Fail(r.st, errorf("cannot spread into this context"))

\* faulty variant of RangeOf: array indices counted from 1
RangeOf_OneBased(st, v) ==
    IF v.t = "array"
    THEN [i \in 1..Len(st.heap[v.n].elems) |->
             [k |-> NewNumber(i), v |-> st.heap[v.n].elems[i]]]
    ELSE LET f == st.heap[v.n].fields
         IN [i \in 1..Len(f) |-> [k |-> NewString(f[i].k), v |-> f[i].v]]

\* the pairs a range over an array or an object visits: for an array the
\* indices in order; for an object the fields in one of the orders Go's map
\* iteration can produce (st.order picks insertion order or its reverse)
RangeOf(st, v) ==
    IF v.t = "array"
    THEN [i \in 1..Len(st.heap[v.n].elems) |->
             [k |-> NewNumber(i - 1), v |-> st.heap[v.n].elems[i]]]
    ELSE LET f == st.heap[v.n].fields
         IN [i \in 1..Len(f) |->
                LET j == IF st.order = "forward" THEN i ELSE Len(f) + 1 - i
                IN [k |-> NewString(f[j].k), v |-> f[j].v]]

evalForBody(st, sub, items, i) ==
    IF i > Len(items) THEN Ok(st, NilValue)
    ELSE IF items[i].type = "BreakStatement" THEN Fail(st, breakSignal)
    ELSE \* a ContinueStatement only leaves the switch; the item is collected
         LET r == Dispatch("collectNode", st, sub, items[i], 0, 0)
         IN IF r.err # NoErr THEN Fail(r.st, r.err)
            ELSE Dispatch("evalForBody", r.st, sub, items, i + 1, 0)

evalForIteration(st, e, n, key, value) ==
    LET loopScope == NewScope(st, e.scope)
        sub == Evaluator(loopScope.id, e.coll)
        s1  == IF n.s # "" THEN Set(loopScope.st, loopScope.id, n.s, key)
               ELSE loopScope.st
        s2  == Set(s1, loopScope.id, n.s2, value)
    IN Dispatch("evalForBody", s2, sub, n.b, 1, 0)

evalForRange(st, e, n, range, i) ==
    IF i > Len(range) THEN Ok(st, NilValue)
    ELSE LET r == Dispatch("evalForIteration", st, e, n, range[i].k, range[i].v)
         IN IF r.err = breakSignal THEN Ok(r.st, NilValue)
            ELSE IF r.err # NoErr THEN Fail(r.st, r.err)
            ELSE Dispatch("evalForRange", r.st, e, n, range, i + 1)

evalForStatement(st, e, n) ==
    LET iterable == Dispatch("evalExpression", st, e, n.a[1], 0, 0)
    IN IF iterable.err # NoErr THEN Fail(iterable.st, iterable.err)
       ELSE IF iterable.val.t \in {"array", "object"}
       THEN Dispatch("evalForRange", iterable.st, e, n, RangeOf(iterable.st, iterable.val), 1)
       ELSE Fail(iterable.st, errorf("cannot iterate"))

\* faulty variant of evalMemberExpression: an absent field is an error
evalMemberExpression_Strict(st, e, n) ==
    LET objVal == Dispatch("evalExpression", st, e, n.a[1], 0, 0)
    IN IF objVal.err # NoErr THEN Fail(objVal.st, objVal.err)
       ELSE IF objVal.val.t = "null" THEN Ok(objVal.st, NewNull)
       ELSE IF objVal.val.t # "object"
       THEN Fail(objVal.st, errorf("cannot access member"))
       ELSE IF ~ObjectGet(objVal.st, objVal.val.n, n.s).ok
       THEN Fail(objVal.st, errorf("undefined field"))
       ELSE Ok(objVal.st, ObjectGet(objVal.st, objVal.val.n, n.s).val)

evalMemberExpression(st, e, n) ==
    LET objVal == Dispatch("evalExpression", st, e, n.a[1], 0, 0)
    IN IF objVal.err # NoErr THEN Fail(objVal.st, objVal.err)
       ELSE IF objVal.val.t = "null" THEN Ok(objVal.st, NewNull)
       ELSE IF objVal.val.t # "object"
       THEN Fail(objVal.st, errorf("cannot access member"))
       ELSE IF ~ObjectGet(objVal.st, objVal.val.n, n.s).ok THEN Ok(objVal.st, NewNull)
       ELSE Ok(objVal.st, ObjectGet(objVal.st, objVal.val.n, n.s).val)

\* the switch on n.Operator, with both operands evaluated
applyOperator(st, operator, left, right) ==
    CASE operator = "+"  -> evalAdd(st, left, right)
      [] operator = "-"  -> evalSub(st, left, right)
      [] operator = "*"  -> evalMul(st, left, right)
      [] operator = "/"  -> evalDiv(st, left, right)
      [] operator = "==" -> Ok(st, NewBool(Equal(left, right)))
      [] operator = "!=" -> Ok(st, NewBool(~Equal(left, right)))
      [] operator = "<"  -> evalLess(st, left, right)
      [] operator = "<=" -> evalLessEqual(st, left, right)
      [] operator = ">"  -> evalGreater(st, left, right)
      [] operator = ">=" -> evalGreaterEqual(st, left, right)
      [] operator = "&&" -> Ok(st, NewBool(IsTruthy(st, left) /\ IsTruthy(st, right)))
      [] operator = "||" -> Ok(st, NewBool(IsTruthy(st, left) \/ IsTruthy(st, right)))
      [] OTHER           -> Fail(st, errorf("unknown operator"))

\* faulty variant of evalBinaryOp: && and || skip the right operand when the
\* left one decides the result
evalBinaryOp_ShortCircuit(st, e, n) ==
    LET left == Dispatch("evalExpression", st, e, n.a[1], 0, 0)
    IN IF n.s = "|" THEN Dispatch("evalPipe", st, e, n, 0, 0)
       ELSE IF left.err # NoErr THEN Fail(left.st, left.err)
       ELSE IF n.s = "&&" /\ ~IsTruthy(left.st, left.val) THEN Ok(left.st, NewBool(FALSE))
       ELSE IF n.s = "||" /\ IsTruthy(left.st, left.val) THEN Ok(left.st, NewBool(TRUE))
       ELSE LET right == Dispatch("evalExpression", left.st, e, n.b[1], 0, 0)
            IN IF right.err # NoErr THEN Fail(right.st, right.err)
               ELSE applyOperator(right.st, n.s, left.val, right.val)

evalBinaryOp(st, e, n) ==
    LET left == Dispatch("evalExpression", st, e, n.a[1], 0, 0)
    IN IF n.s = "|" THEN Dispatch("evalPipe", st, e, n, 0, 0)
       ELSE IF left.err # NoErr THEN Fail(left.st, left.err)
       ELSE LET right == Dispatch("evalExpression", left.st, e, n.b[1], 0, 0)
            IN IF right.err # NoErr THEN Fail(right.st, right.err)
               ELSE applyOperator(right.st, n.s, left.val, right.val)

\* for _, node := range tmpl.Body: an error is wrapped as `include "name": err`
evalIncludeBody(st, tmplEval, n, items, i) ==
    IF i > Len(items) THEN Ok(st, NilValue)
    ELSE LET r == Dispatch("collectNode", st, tmplEval, items[i], 0, 0)
         IN IF r.err = runtimePanic THEN Fail(r.st, r.err)
            ELSE IF r.err # NoErr
            THEN Fail(r.st, [msg |-> r.err.msg, wrap |-> r.err.wrap + 1, typed |-> TRUE])
            ELSE Dispatch("evalIncludeBody", r.st, tmplEval, n, items, i + 1)

\* faulty variant of evalIncludeStatement: the template scope is a child of
\* the caller's scope
evalIncludeStatement_ChildScope(st, e, n) ==
    LET tmpl == GetTemplate(st, e.scope, n.s)
    IN IF ~tmpl.ok THEN Fail(st, errorf("undefined template"))
       ELSE LET tmplScope == NewScope(st, e.scope)
                s1  == Link(tmplScope.st, tmplScope.id, e.scope)
                val == IF n.a # <<>> THEN Dispatch("evalExpression", s1, e, n.a[1], 0, 0)
                       ELSE Ok(s1, NilValue)
            IN IF val.err # NoErr THEN Fail(val.st, val.err)
               ELSE IF n.a # <<>> /\ val.val.t # "object"
               THEN Fail(val.st, errorf("template context must be an object"))
               ELSE LET src == IF n.a # <<>> THEN val.st.heap[val.val.n].fields
                               ELSE <<>>
                        F[i \in 0..Len(src)] ==
                            IF i = 0 THEN val.st
                            ELSE Set(F[i - 1], tmplScope.id, src[i].k, src[i].v)
                        tmplEval == Evaluator(tmplScope.id, e.coll)
                    IN Dispatch("evalIncludeBody", F[Len(src)], tmplEval, n, tmpl.tmpl.Body, 1)

evalIncludeStatement(st, e, n) ==
    LET tmpl == GetTemplate(st, e.scope, n.s)
    IN IF ~tmpl.ok THEN Fail(st, errorf("undefined template"))
       ELSE LET tmplScope == NewScope(st, 0)
                s1  == Link(tmplScope.st, tmplScope.id, e.scope)
                val == IF n.a # <<>> THEN Dispatch("evalExpression", s1, e, n.a[1], 0, 0)
                       ELSE Ok(s1, NilValue)
            IN IF val.err # NoErr THEN Fail(val.st, val.err)
               ELSE IF n.a # <<>> /\ val.val.t # "object"
               THEN Fail(val.st, errorf("template context must be an object"))
               ELSE LET src == IF n.a # <<>> THEN val.st.heap[val.val.n].fields
                               ELSE <<>>
                        F[i \in 0..Len(src)] ==
                            IF i = 0 THEN val.st
                            ELSE Set(F[i - 1], tmplScope.id, src[i].k, src[i].v)
                        tmplEval == Evaluator(tmplScope.id, e.coll)
                    IN Dispatch("evalIncludeBody", F[Len(src)], tmplEval, n, tmpl.tmpl.Body, 1)

\* faulty variant of evalAssignmentStatement: in a child scope the name is
\* set in the enclosing scope
evalAssignmentStatement_Enclosing(st, e, n) ==
    LET val == Dispatch("evalValueStatement", st, e, n.a[1], 0, 0)
    IN IF val.err # NoErr THEN Fail(val.st, val.err)
       ELSE LET parent == val.st.scopes[e.scope].parent
            IN Ok(Set(val.st, IF parent # 0 THEN parent ELSE e.scope, n.s, val.val),
                  NilValue)

evalAssignmentStatement(st, e, n) ==
    LET val == Dispatch("evalValueStatement", st, e, n.a[1], 0, 0)
    IN IF val.err # NoErr THEN Fail(val.st, val.err)
       ELSE Ok(Set(val.st, e.scope, n.s, val.val), NilValue)

evalLetStatement(st, e, n) ==
    LET val == Dispatch("evalValueStatement", st, e, n.a[1], 0, 0)
    IN IF val.err # NoErr THEN Fail(val.st, val.err)
       ELSE Ok(Set(val.st, e.scope, n.s, val.val), NilValue)

\* the calls of the evaluator made among its own methods
(***************************************************************************)
(* Functions.  A Func is a Go function the host registers on the scope     *)
(* with SetFunction.  The model has three: concat returns the              *)
(* concatenation of the string forms of its arguments, wrap returns its    *)
(* first argument between brackets, and fail returns an error.             *)
(***************************************************************************)
GetFunction(st, s, name) ==
    IF MapHas(st.maps[st.scopes[s].funcs], name)
    THEN [ok |-> TRUE, f |-> MapGet(st.maps[st.scopes[s].funcs], name)]
    ELSE [ok |-> FALSE, f |-> ""]

SetFunction(st, s, name, f) ==
    [st EXCEPT !.maps[st.scopes[s].funcs] = MapSet(@, name, f)]

RECURSIVE concatArgs(_)
concatArgs(args) ==
    IF args = <<>> THEN [ok |-> TRUE, s |-> ""]
    ELSE LET head == runtimeToString(Head(args))
             tail == concatArgs(Tail(args))
         IN IF ~head.ok \/ ~tail.ok THEN [ok |-> FALSE, s |-> ""]
            ELSE [ok |-> TRUE, s |-> head.s \o tail.s]

\* fn(args...): the value and the error of the call
Func(f, args) ==
    CASE f = "concat" ->
            IF concatArgs(args).ok
            THEN [val |-> NewString(concatArgs(args).s), err |-> ""]
            ELSE [val |-> NilValue, err |-> "cannot convert to string"]
      [] f = "wrap" ->
            IF args # <<>> /\ runtimeToString(args[1]).ok
            THEN [val |-> NewString("[" \o runtimeToString(args[1]).s \o "]"), err |-> ""]
            ELSE [val |-> NilValue, err |-> "wrap: one string expected"]
      [] f = "fail" -> [val |-> NilValue, err |-> "fail"]

callFunction(st, e, name, args) ==
    LET fn == GetFunction(st, e.scope, name)
    IN IF ~fn.ok THEN Fail(st, errorf("undefined function"))
       ELSE IF Func(fn.f, args).err # "" THEN Fail(st, errorf(Func(fn.f, args).err))
       ELSE Ok(st, Func(fn.f, args).val)

\* for _, arg := range args: the values of the arguments, in val
evalArgs(st, e, args, i, vals) ==
    IF i > Len(args) THEN Ok(st, vals)
    ELSE LET r == Dispatch("evalExpression", st, e, args[i], 0, 0)
         IN IF r.err # NoErr THEN Fail(r.st, r.err)
            ELSE Dispatch("evalArgs", r.st, e, args, i + 1, Append(vals, r.val))

evalCallExpression(st, e, n) ==
    IF n.a[1].type # "Identifier" THEN Fail(st, errorf("function must be an identifier"))
    ELSE LET args == Dispatch("evalArgs", st, e, n.b, 1, <<>>)
         IN IF args.err # NoErr THEN Fail(args.st, args.err)
            ELSE callFunction(args.st, e, n.a[1].s, args.val)

\* faulty variant of evalPipe: the piped value is passed as the first argument
evalPipe_ValueFirst(st, e, n) ==
    LET val   == Dispatch("evalExpression", st, e, n.a[1], 0, 0)
        right == n.b[1]
    IN IF val.err # NoErr THEN Fail(val.st, val.err)
       ELSE CASE right.type = "Identifier" -> callFunction(val.st, e, right.s, <<val.val>>)
              [] right.type = "CallExpression" ->
                    IF right.a[1].type # "Identifier"
                    THEN Fail(val.st, errorf("pipe right side must be a function name"))
                    ELSE LET args == Dispatch("evalArgs", val.st, e, right.b, 1, <<>>)
                         IN IF args.err # NoErr THEN Fail(args.st, args.err)
                            ELSE callFunction(args.st, e, right.a[1].s,
                                              <<val.val>> \o args.val)
              [] OTHER -> Fail(val.st, errorf("invalid pipe right side"))

evalPipe(st, e, n) ==
    LET val   == Dispatch("evalExpression", st, e, n.a[1], 0, 0)
        right == n.b[1]
    IN IF val.err # NoErr THEN Fail(val.st, val.err)
       ELSE CASE right.type = "Identifier" -> callFunction(val.st, e, right.s, <<val.val>>)
              [] right.type = "CallExpression" ->
                    IF right.a[1].type # "Identifier"
                    THEN Fail(val.st, errorf("pipe right side must be a function name"))
                    ELSE LET args == Dispatch("evalArgs", val.st, e, right.b, 1, <<>>)
                         IN IF args.err # NoErr THEN Fail(args.st, args.err)
                            ELSE callFunction(args.st, e, right.a[1].s,
                                              Append(args.val, val.val))
              [] OTHER -> Fail(val.st, errorf("invalid pipe right side"))

evalUnaryOp(st, e, n) ==
    LET operand == Dispatch("evalExpression", st, e, n.a[1], 0, 0)
    IN IF operand.err # NoErr THEN Fail(operand.st, operand.err)
       ELSE CASE n.s = "!" -> Ok(operand.st, NewBool(~IsTruthy(operand.st, operand.val)))
              [] n.s = "-" ->
                    IF ~ToNumber(operand.val).ok THEN Fail(operand.st, errorf("cannot negate"))
                    ELSE Ok(operand.st, NewNumber(-ToNumber(operand.val).n))
              [] OTHER -> Fail(operand.st, errorf("unknown unary operator"))

\* for _, part := range n.Parts: result is the string built so far.  wraperr
\* is not among the sources at hand; it is taken to make an EvalError at n.Pos.
evalInterpolatedString(st, e, n, i, result) ==
    IF i > Len(n.a) THEN Ok(st, NewString(result))
    ELSE LET val == Dispatch("evalExpression", st, e, n.a[i], 0, 0)
         IN IF val.err # NoErr THEN Fail(val.st, val.err)
            ELSE IF ~runtimeToString(val.val).ok
            THEN Fail(val.st, errorf("cannot convert to string"))
            ELSE Dispatch("evalInterpolatedString", val.st, e, n, i + 1,
                          result \o runtimeToString(val.val).s)

evalIndexExpression(st, e, n) ==
    LET objVal   == Dispatch("evalExpression", st, e, n.a[1], 0, 0)
        indexVal == Dispatch("evalExpression", objVal.st, e, n.b[1], 0, 0)
        s        == indexVal.st
    IN IF objVal.err # NoErr THEN Fail(objVal.st, objVal.err)
       ELSE IF indexVal.err # NoErr THEN Fail(indexVal.st, indexVal.err)
       ELSE CASE objVal.val.t = "array" ->
                    IF indexVal.val.t # "number"
                    THEN Fail(s, errorf("array index must be a number"))
                    ELSE IF indexVal.val.n < 0
                            \/ indexVal.val.n >= Len(s.heap[objVal.val.n].elems)
                    THEN Fail(s, errorf("array index out of bounds"))
                    ELSE Ok(s, s.heap[objVal.val.n].elems[indexVal.val.n + 1])
              [] objVal.val.t = "object" ->
                    LET key == runtimeToString(indexVal.val)
                    IN IF ~key.ok THEN Fail(s, errorf("object index must be a string"))
                       ELSE IF ~ObjectGet(s, objVal.val.n, key.s).ok
                       THEN Fail(s, errorf("undefined field"))
                       ELSE Ok(s, ObjectGet(s, objVal.val.n, key.s).val)
              [] OTHER -> Fail(s, errorf("cannot index"))

Dispatch(fn, st, e, x, y, z) ==
    CASE fn = "evalExpression" -> evalExpression(st, e, x)
      [] fn = "evalStatement" -> evalStatement(st, e, x)
      [] fn = "collectNode" -> collectNode(st, e, x)
      [] fn = "collectNodes" -> collectNodes(st, e, x, y)
      [] fn = "evalValueStatement" -> evalValueStatement(st, e, x)
      [] fn = "evalKeyValue" -> evalKeyValue(st, e, x)
      [] fn = "evalArray" -> evalArray(st, e, x)
      [] fn = "evalObject" -> evalObject(st, e, x)
      [] fn = "evalObjectBody" -> evalObjectBody(st, e, x, y)
      [] fn = "evalIfStatement" -> evalIfStatement(st, e, x)
      [] fn = "evalWithStatement" -> evalWithStatement(st, e, x)
      [] fn = "evalSpreadStatement" -> evalSpreadStatement(st, e, x)
      [] fn = "evalForStatement" -> evalForStatement(st, e, x)
      [] fn = "evalForRange" -> evalForRange(st, e, x, y, z)
      [] fn = "evalForIteration" -> evalForIteration(st, e, x, y, z)
      [] fn = "evalForBody" -> evalForBody(st, e, x, y)
      [] fn = "evalIncludeStatement" -> evalIncludeStatement(st, e, x)
      [] fn = "evalIncludeBody" -> evalIncludeBody(st, e, x, y, z)
      [] fn = "collectSingleValue" -> collectSingleValue(st, e, x, y)
      [] fn = "evalBinaryOp" -> evalBinaryOp(st, e, x)
      [] fn = "evalMemberExpression" -> evalMemberExpression(st, e, x)
      [] fn = "evalLetStatement" -> evalLetStatement(st, e, x)
      [] fn = "evalAssignmentStatement" -> evalAssignmentStatement(st, e, x)
      [] fn = "evalArgs" -> evalArgs(st, e, x, y, z)
      [] fn = "evalCallExpression" -> evalCallExpression(st, e, x)
      [] fn = "evalPipe" -> evalPipe(st, e, x)
      [] fn = "evalUnaryOp" -> evalUnaryOp(st, e, x)
      [] fn = "evalInterpolatedString" -> evalInterpolatedString(st, e, x, y, z)
      [] fn = "evalIndexExpression" -> evalIndexExpression(st, e, x)

(***************************************************************************)
(* The lexer (parser/lexer.go).  The input is a sequence of bytes, each a  *)
(* one-character string; pos counts from 0 as in the source.  A slice      *)
(* expression of the source with bounds out of range is a run-time panic:  *)
(* the operators that slice return panicked = TRUE for it.                 *)
(***************************************************************************)
NUL == ""

Digits == {"0", "1", "2", "3", "4", "5", "6", "7", "8", "9"}

Letters ==
    {"a", "b", "c", "d", "e", "f", "g", "h", "i", "j", "k", "l", "m", "n", "o", "p", "q",
     "r", "s", "t", "u", "v", "w", "x", "y", "z", "A", "B", "C", "D", "E", "F", "G", "H",
     "I", "J", "K", "L", "M", "N", "O", "P", "Q", "R", "S", "T", "U", "V", "W", "X", "Y",
     "Z"}

IsDigit(ch) == ch \in Digits

IsLetter(ch) == ch \in Letters

\* the string made of the bytes of a sequence
RECURSIVE Join(_)
Join(bytes) == IF bytes = <<>> THEN "" ELSE Head(bytes) \o Join(Tail(bytes))

\* input[lo:hi]
Slice(input, lo, hi) ==
    IF 0 <= lo /\ lo <= hi /\ hi <= Len(input)
    THEN [ok |-> TRUE, bytes |-> SubSeq(input, lo + 1, hi)]
    ELSE [ok |-> FALSE, bytes |-> <<>>]

\* Value is the Go string as the sequence of its bytes
Token(type, value, line, col) ==
    [Type |-> type, Value |-> value, Line |-> line, Col |-> col]

\* the zero Token
NoToken == Token("TokenEOF", <<>>, 0, 0)

NewLexer(input) == [input |-> input, pos |-> 0, line |-> 1, col |-> 1]

current(l) == IF l.pos >= Len(l.input) THEN NUL ELSE l.input[l.pos + 1]

peek(l) == IF l.pos + 1 >= Len(l.input) THEN NUL ELSE l.input[l.pos + 2]

peekN(l, n) == IF l.pos + n >= Len(l.input) THEN NUL ELSE l.input[l.pos + n + 1]

advance(l) ==
    IF l.pos < Len(l.input)
    THEN IF l.input[l.pos + 1] = "\n"
         THEN [l EXCEPT !.line = @ + 1, !.col = 1, !.pos = @ + 1]
         ELSE [l EXCEPT !.col = @ + 1, !.pos = @ + 1]
    ELSE l

RECURSIVE skipWhitespace(_)
skipWhitespace(l) ==
    IF l.pos < Len(l.input) /\ current(l) \in {" ", "\t", "\r"}
    THEN skipWhitespace(advance(l))
    ELSE l

\* the outcome of a lexer method that returns a Token
Lexed(l, token) == [lexer |-> l, token |-> token, panicked |-> FALSE]

Panicked(l) == [lexer |-> l, token |-> NoToken, panicked |-> TRUE]

RECURSIVE readCommentBody(_)
readCommentBody(l) ==
    IF l.pos < Len(l.input) /\ current(l) # "\n" THEN readCommentBody(advance(l)) ELSE l

readComment(l) ==
    LET end   == readCommentBody(advance(l))
        value == Slice(l.input, l.pos, end.pos)
    IN IF ~value.ok THEN Panicked(end)
       ELSE Lexed(end, Token("TokenComment", value.bytes, end.line, l.col))

RECURSIVE unescapeFrom(_, _)
unescapeFrom(s, i) ==
    IF i >= Len(s) THEN <<>>
    ELSE IF s[i + 1] = "\\" /\ i + 1 < Len(s)
    THEN CASE s[i + 2] = "n"  -> <<"\n">> \o unescapeFrom(s, i + 2)
           [] s[i + 2] = "t"  -> <<"\t">> \o unescapeFrom(s, i + 2)
           [] s[i + 2] = "r"  -> <<"\r">> \o unescapeFrom(s, i + 2)
           [] s[i + 2] = "\"" -> <<"\"">> \o unescapeFrom(s, i + 2)
           [] s[i + 2] = "\\" -> <<"\\">> \o unescapeFrom(s, i + 2)
           [] s[i + 2] = "$"  -> <<NUL, "$">> \o unescapeFrom(s, i + 2)
           [] OTHER           -> <<"\\">> \o unescapeFrom(s, i + 1)
    ELSE <<s[i + 1]>> \o unescapeFrom(s, i + 1)

unescapeString(s) ==
    IF \A i \in 1..Len(s) : s[i] # "\\" THEN s ELSE unescapeFrom(s, 0)

RECURSIVE readStringBody(_)
readStringBody(l) ==
    IF l.pos < Len(l.input) /\ current(l) # "\""
    THEN readStringBody(advance(IF current(l) = "\\" THEN advance(l) ELSE l))
    ELSE l

readString(l) ==
    LET body  == readStringBody(advance(l))
        end   == IF body.pos < Len(l.input) THEN advance(body) ELSE body
        value == Slice(l.input, l.pos + 1, end.pos - 1)
    IN IF ~value.ok THEN Panicked(end)
       ELSE Lexed(end, Token("TokenString", unescapeString(value.bytes),
                             end.line, l.col))

\* the lexer moved to the closing """ or to the end of the input
RECURSIVE readMultilineBody(_)
readMultilineBody(l) ==
    IF l.pos < Len(l.input)
       /\ ~(current(l) = "\"" /\ peek(l) = "\"" /\ peekN(l, 2) = "\"")
    THEN readMultilineBody(advance(l))
    ELSE l

readMultilineString(l) ==
    LET body  == readMultilineBody(advance(advance(advance(l))))
        value == IF body.pos < Len(l.input)
                 THEN Slice(l.input, l.pos + 3, body.pos)
                 ELSE Slice(l.input, l.pos + 3, Len(l.input))
        end   == IF body.pos < Len(l.input) THEN advance(advance(advance(body)))
                 ELSE body
    IN IF ~value.ok THEN Panicked(body)
       ELSE Lexed(end, Token("TokenString", unescapeString(value.bytes),
                             l.line, l.col))

RECURSIVE readNumberBody(_)
readNumberBody(l) ==
    IF l.pos < Len(l.input) /\ (IsDigit(current(l)) \/ current(l) = ".")
    THEN readNumberBody(advance(l))
    ELSE l

readNumber(l) ==
    LET end   == readNumberBody(IF current(l) = "-" THEN advance(l) ELSE l)
        value == Slice(l.input, l.pos, end.pos)
    IN IF ~value.ok THEN Panicked(end)
       ELSE Lexed(end, Token("TokenNumber", value.bytes, end.line, l.col))

RECURSIVE readIdentifierBody(_)
readIdentifierBody(l) ==
    IF l.pos < Len(l.input)
       /\ (IsLetter(current(l)) \/ IsDigit(current(l)) \/ current(l) = "_")
    THEN readIdentifierBody(advance(l))
    ELSE l

Keywords ==
    {"if", "else", "for", "in", "with", "as", "do", "end", "break", "continue", "let",
     "define", "include", "spread", "true", "false", "null"}

\* the token type of a keyword: TokenIf for "if", ...
KeywordToken(value) ==
    CASE value = "if" -> "TokenIf"             [] value = "else" -> "TokenElse"
      [] value = "for" -> "TokenFor"           [] value = "in" -> "TokenIn"
      [] value = "with" -> "TokenWith"         [] value = "as" -> "TokenAs"
      [] value = "do" -> "TokenDo"             [] value = "end" -> "TokenEnd"
      [] value = "break" -> "TokenBreak"       [] value = "continue" -> "TokenContinue"
      [] value = "let" -> "TokenLet"           [] value = "define" -> "TokenDefine"
      [] value = "include" -> "TokenInclude"   [] value = "spread" -> "TokenSpread"
      [] value = "true" -> "TokenTrue"         [] value = "false" -> "TokenFalse"
      [] value = "null" -> "TokenNull"

readIdentifier(l) ==
    LET end   == readIdentifierBody(l)
        value == Slice(l.input, l.pos, end.pos)
        name  == Join(value.bytes)
    IN IF ~value.ok THEN Panicked(end)
       ELSE Lexed(end, Token(IF name \in Keywords THEN KeywordToken(name) ELSE "TokenIdent",
                             value.bytes, end.line, l.col))

\* a token of one byte, and one of one byte or of two when the next byte is second
OneByte(l, type) == Lexed(advance(l), Token(type, <<current(l)>>, l.line, l.col))

TwoBytes(l, second, type2, type1) ==
    IF peek(l) = second
    THEN Lexed(advance(advance(l)), Token(type2, <<current(l), second>>, l.line, l.col))
    ELSE OneByte(l, type1)

NextToken(lexer) ==
    LET l  == skipWhitespace(lexer)
        ch == current(l)
    IN IF l.pos >= Len(l.input) THEN Lexed(l, Token("TokenEOF", <<>>, l.line, l.col))
       ELSE IF ch = "\n" THEN OneByte(l, "TokenNewline")
       ELSE IF ch = "#" THEN readComment(l)
       ELSE IF ch = "\"" THEN
            IF peek(l) = "\"" /\ peekN(l, 2) = "\"" THEN readMultilineString(l)
            ELSE readString(l)
       ELSE IF IsDigit(ch) \/ (ch = "-" /\ peek(l) # NUL /\ IsDigit(peek(l)))
       THEN readNumber(l)
       ELSE IF IsLetter(ch) \/ ch = "_" THEN readIdentifier(l)
       ELSE CASE ch = ":" -> OneByte(l, "TokenColon")
              [] ch = "," -> OneByte(l, "TokenComma")
              [] ch = "{" -> OneByte(l, "TokenLBrace")
              [] ch = "}" -> OneByte(l, "TokenRBrace")
              [] ch = "[" -> OneByte(l, "TokenLBracket")
              [] ch = "]" -> OneByte(l, "TokenRBracket")
              [] ch = "(" -> OneByte(l, "TokenLParen")
              [] ch = ")" -> OneByte(l, "TokenRParen")
              [] ch = "." -> OneByte(l, "TokenDot")
              [] ch = "&" -> TwoBytes(l, "&", "TokenAnd", "TokenEOF")
              [] ch = "|" -> TwoBytes(l, "|", "TokenOr", "TokenPipe")
              [] ch = "=" -> TwoBytes(l, "=", "TokenEq", "TokenAssign")
              [] ch = "!" -> TwoBytes(l, "=", "TokenNeq", "TokenNot")
              [] ch = "<" -> TwoBytes(l, "=", "TokenLte", "TokenLt")
              [] ch = ">" -> TwoBytes(l, "=", "TokenGte", "TokenGt")
              [] ch = "+" -> OneByte(l, "TokenPlus")
              [] ch = "-" -> OneByte(l, "TokenMinus")
              [] ch = "*" -> OneByte(l, "TokenMul")
              [] ch = "/" -> OneByte(l, "TokenDiv")
              [] OTHER    -> OneByte(l, "TokenEOF")

(***************************************************************************)
(* The Parser's token window (parser/parser.go): current and peek, filled  *)
(* from the lexer by nextToken.                                            *)
(***************************************************************************)
\* p.current = p.peek; p.peek = p.lexer.NextToken().  A panic of the lexer
\* unwinds the parser; no call follows it, and the window is then empty.
nextToken(p) ==
    IF p.panicked THEN [p EXCEPT !.current = NoToken, !.peek = NoToken]
    ELSE LET next == NextToken(p.lexer)
         IN [lexer |-> next.lexer, current |-> p.peek, peek |-> next.token,
             panicked |-> next.panicked, source |-> p.source]

\* New(source, filename): a lexer on the source and two calls of nextToken,
\* the second of which is not reached when the first panics
New(source) ==
    LET p0 == [lexer |-> NewLexer(source), current |-> NoToken, peek |-> NoToken,
               panicked |-> FALSE, source |-> source]
        p1 == nextToken(p0)
    IN IF p1.panicked THEN p1 ELSE nextToken(p1)

(***************************************************************************)
(* The parser (parser/parser.go).  A parse function takes the Parser p and *)
(* returns the Parser after it, the node it built and its error.  An error *)
(* is a *ParseError (typed, made by p.error at the current token) or a     *)
(* plain error made by fmt.Errorf, which has no position and no source.    *)
(***************************************************************************)
NoParseError == [msg |-> "", Line |-> 0, Col |-> 0, Source |-> <<>>, typed |-> FALSE]

\* p.error(message)
error(p, message) ==
    [msg |-> message, Line |-> p.current.Line, Col |-> p.current.Col,
     Source |-> p.source, typed |-> TRUE]

\* fmt.Errorf(...)
fmtErrorf(message) ==
    [msg |-> message, Line |-> 0, Col |-> 0, Source |-> <<>>, typed |-> FALSE]

PR(p, node, e) == [p |-> p, node |-> node, err |-> e]

POk(p, node) == PR(p, node, NoParseError)

PFail(p, e) == PR(p, NilNode, e)

currentIs(p, t) == p.current.Type = t

peekIs(p, t) == p.peek.Type = t

RECURSIVE skipNewlines(_)
skipNewlines(p) == IF currentIs(p, "TokenNewline") THEN skipNewlines(nextToken(p)) ELSE p

expectCurrent(p, t) ==
    IF ~currentIs(p, t) THEN error(p, "expected " \o t) ELSE NoParseError

PREC_LOWEST == 0

tokenPrecedence(t) ==
    CASE t = "TokenPipe"                                        -> 1
      [] t = "TokenOr"                                          -> 2
      [] t = "TokenAnd"                                         -> 3
      [] t \in {"TokenEq", "TokenNeq"}                          -> 4
      [] t \in {"TokenLt", "TokenLte", "TokenGt", "TokenGte"}   -> 5
      [] t \in {"TokenPlus", "TokenMinus"}                      -> 6
      [] t \in {"TokenMul", "TokenDiv"}                         -> 7
      [] OTHER                                                  -> PREC_LOWEST

peekPrecedence(p) == tokenPrecedence(p.peek.Type)

expectStatementEnd(p) ==
    IF p.peek.Type \in {"TokenNewline", "TokenComma", "TokenRBrace", "TokenRBracket",
                        "TokenEnd", "TokenElse", "TokenEOF"}
    THEN NoParseError
    ELSE error(p, "unexpected token after expression")

\* strings.ReplaceAll(str, "\x00$", "$")
RECURSIVE cleanStr(_)
cleanStr(str) ==
    IF str = <<>> THEN <<>>
    ELSE IF Len(str) >= 2 /\ str[1] = NUL /\ str[2] = "$"
    THEN <<"$">> \o cleanStr(SubSeq(str, 3, Len(str)))
    ELSE <<str[1]>> \o cleanStr(Tail(str))

\* strings.Index(str[from:], "${"), -1 if there is none
IndexInterpolation(str, from) ==
    LET found == {i \in from..(Len(str) - 2) : str[i + 1] = "$" /\ str[i + 2] = "{"}
    IN IF found = {} THEN -1
       ELSE (CHOOSE i \in found : \A j \in found : i <= j) - from

\* strings.Index(str[from:], "}"), -1 if there is none
IndexBrace(str, from) ==
    LET found == {i \in from..(Len(str) - 1) : str[i + 1] = "}"}
    IN IF found = {} THEN -1
       ELSE (CHOOSE i \in found : \A j \in found : i <= j) - from

\* parseStringLiteral, the first loop
hasInterpolation(str) ==
    \E i \in 0..(Len(str) - 2) :
        /\ str[i + 1] = "$"
        /\ str[i + 2] = "{"
        /\ ~(i > 0 /\ str[i] = NUL)

\* parseStringLiteral, the search for the next interpolation: start and the
\* value of pos after it
RECURSIVE findInterpolation(_, _, _)
findInterpolation(str, pos, searchPos) ==
    IF searchPos >= Len(str) THEN [start |-> -1, pos |-> pos]
    ELSE LET idx == IndexInterpolation(str, searchPos)
             absoluteIdx == searchPos + idx
         IN IF idx = -1 THEN [start |-> -1, pos |-> pos]
            ELSE IF absoluteIdx > 0 /\ str[absoluteIdx] = NUL
            THEN findInterpolation(str, pos, absoluteIdx + 2)
            ELSE [start |-> idx, pos |-> searchPos]

RECURSIVE PDispatch(_, _, _, _)

\* the Parser of the expression inside ${...}: it has no source
exprParser(p, exprStr) ==
    PDispatch("nextToken",
              PDispatch("nextToken",
                        [lexer |-> NewLexer(exprStr), current |-> NoToken, peek |-> NoToken,
                         panicked |-> FALSE, source |-> <<>>], 0, 0), 0, 0)

\* parseStringLiteral, the loop over the parts of an interpolated string
splitParts(p, str, pos0, parts0) ==
    LET found == findInterpolation(str, pos0, pos0)
        start == found.start
        pos   == found.pos
    IN IF start = -1
       THEN POk(p, InterpolatedString(
                IF pos < Len(str)
                THEN Append(parts0, StringLiteral(Join(cleanStr(SubSeq(str, pos + 1, Len(str))))))
                ELSE parts0))
       ELSE LET parts1 == IF start > 0
                          THEN Append(parts0, StringLiteral(Join(cleanStr(
                                   SubSeq(str, pos + 1, pos + start)))))
                          ELSE parts0
                pos1   == pos + start + 2
                end    == IndexBrace(str, pos1)
            IN IF end = -1 THEN PFail(p, error(p, "unclosed interpolation in string"))
               ELSE LET sub  == exprParser(p, SubSeq(str, pos1 + 1, pos1 + end))
                        expr == PDispatch("parseExpression", sub, 0, 0)
                    IN IF sub.panicked \/ expr.p.panicked
                       THEN PFail([p EXCEPT !.panicked = TRUE], NoParseError)
                       ELSE IF expr.err # NoParseError
                       THEN PFail(p, fmtErrorf("failed to parse interpolation expression"))
                       ELSE PDispatch("splitParts", p, str,
                                      <<pos1 + end + 1, Append(parts1, expr.node)>>)

parseStringLiteral(p) ==
    LET str == p.current.Value
    IN IF ~hasInterpolation(str) THEN POk(p, StringLiteral(Join(cleanStr(str))))
       ELSE PDispatch("splitParts", p, str, <<0, <<>>>>)

\* the number a sequence of decimal digits denotes
RECURSIVE Decimal(_)
Decimal(digits) ==
    IF digits = <<>> THEN 0
    ELSE 10 * Decimal(SubSeq(digits, 1, Len(digits) - 1))
         + (CHOOSE d \in 0..9 : Digit[d + 1] = digits[Len(digits)])

\* strconv.ParseFloat(value, 64) of a TokenNumber: an optional minus sign and
\* then digits and dots, of which the lexer has made sure the first is a
\* digit.  More than one dot is a syntax error.  Numbers being integers in
\* the model, the digits after the dot are dropped; the sources the model
\* reads have no literal with a fraction.
strconvParseFloat(value) ==
    LET negative == value # <<>> /\ value[1] = "-"
        body     == IF negative THEN Tail(value) ELSE value
        dots     == {i \in 1..Len(body) : body[i] = "."}
        whole    == IF dots = {} THEN body
                    ELSE SubSeq(body, 1, (CHOOSE i \in dots : TRUE) - 1)
    IN IF Cardinality(dots) > 1 \/ body = <<>> THEN [ok |-> FALSE, n |-> 0]
       ELSE [ok |-> TRUE, n |-> IF negative THEN -Decimal(whole) ELSE Decimal(whole)]

parseIdentifier(p) == POk(p, Identifier(Join(p.current.Value)))

parseIncludeExpression(p) ==
    LET p1 == PDispatch("nextToken", p, 0, 0)
        p2 == PDispatch("nextToken", p1, 0, 0)
        p3 == PDispatch("nextToken", p2, 0, 0)
    IN IF expectCurrent(p1, "TokenLParen") # NoParseError
       THEN PFail(p1, expectCurrent(p1, "TokenLParen"))
       ELSE IF expectCurrent(p2, "TokenString") # NoParseError
       THEN PFail(p2, expectCurrent(p2, "TokenString"))
       ELSE LET name == Join(p2.current.Value)
            IN IF currentIs(p3, "TokenComma")
               THEN LET arg == PDispatch("parseExpression", PDispatch("nextToken", p3, 0, 0), 0, 0)
                        p4  == PDispatch("nextToken", arg.p, 0, 0)
                    IN IF arg.err # NoParseError THEN arg
                       ELSE IF expectCurrent(p4, "TokenRParen") # NoParseError
                       THEN PFail(p4, expectCurrent(p4, "TokenRParen"))
                       ELSE POk(p4, IncludeExpression(name, <<arg.node>>))
               ELSE IF expectCurrent(p3, "TokenRParen") # NoParseError
               THEN PFail(p3, expectCurrent(p3, "TokenRParen"))
               ELSE POk(p3, IncludeExpression(name, <<>>))

parsePrimaryValue(p) ==
    LET t == p.current.Type
    IN CASE t = "TokenString" -> PDispatch("parseStringLiteral", p, 0, 0)
         [] t = "TokenTrue"   -> POk(p, BooleanLiteral(TRUE))
         [] t = "TokenFalse"  -> POk(p, BooleanLiteral(FALSE))
         [] t = "TokenNull"   -> POk(p, NullLiteral)
         [] t = "TokenDot" ->
              IF peekIs(p, "TokenIdent")
              THEN LET p1 == PDispatch("nextToken", p, 0, 0)
                   IN POk(p1, MemberExpression(CurrentContext, Join(p1.current.Value)))
              ELSE POk(p, CurrentContext)
         [] t = "TokenLBrace"   -> PDispatch("parseObject", p, 0, 0)
         [] t = "TokenLBracket" -> PDispatch("parseArray", p, 0, 0)
         [] t = "TokenInclude"  -> PDispatch("parseIncludeExpression", p, 0, 0)
         [] t = "TokenNumber" ->
              LET num == strconvParseFloat(p.current.Value)
              IN IF ~num.ok THEN PFail(p, fmtErrorf("invalid number"))
                 ELSE POk(p, NumberLiteral(num.n))
         [] t = "TokenIdent" -> parseIdentifier(p)
         [] t = "TokenNot" ->
              LET operand == PDispatch("parseExpression", PDispatch("nextToken", p, 0, 0), 0, 0)
              IN IF operand.err # NoParseError THEN operand
                 ELSE POk(operand.p, UnaryOp("!", operand.node))
         [] t = "TokenLParen" ->
              LET value == PDispatch("parseExpression", PDispatch("nextToken", p, 0, 0), 0, 0)
                  p1    == PDispatch("nextToken", value.p, 0, 0)
              IN IF value.err # NoParseError THEN value
                 ELSE IF expectCurrent(p1, "TokenRParen") # NoParseError
                 THEN PFail(p1, expectCurrent(p1, "TokenRParen"))
                 ELSE POk(p1, value.node)
         [] OTHER -> PFail(p, error(p, "unexpected token"))

\* parsePostfixValue, the loop over the arguments of a call
parseArgs(p, args) ==
    IF ~currentIs(p, "TokenRParen") /\ ~currentIs(p, "TokenEOF")
    THEN LET arg == PDispatch("parseExpression", p, 0, 0)
             p1  == PDispatch("nextToken", arg.p, 0, 0)
             p2  == IF currentIs(p1, "TokenComma") THEN PDispatch("nextToken", p1, 0, 0) ELSE p1
         IN IF arg.err # NoParseError THEN arg
            ELSE PDispatch("parseArgs", p2, Append(args, arg.node), 0)
    ELSE POk(p, args)

\* parsePostfixValue, the loop over the postfix operators ., [ and (
parsePostfix(p, value) ==
    IF peekIs(p, "TokenDot")
    THEN LET p2 == PDispatch("nextToken", PDispatch("nextToken", p, 0, 0), 0, 0)
         IN IF expectCurrent(p2, "TokenIdent") # NoParseError
            THEN PFail(p2, expectCurrent(p2, "TokenIdent"))
            ELSE PDispatch("parsePostfix", p2,
                           MemberExpression(value, Join(p2.current.Value)), 0)
    ELSE IF peekIs(p, "TokenLBracket")
    THEN LET index == PDispatch("parseExpression", PDispatch("nextToken", PDispatch("nextToken", p, 0, 0), 0, 0), 0, 0)
             p3    == PDispatch("nextToken", index.p, 0, 0)
         IN IF index.err # NoParseError THEN index
            ELSE IF expectCurrent(p3, "TokenRBracket") # NoParseError
            THEN PFail(p3, expectCurrent(p3, "TokenRBracket"))
            ELSE PDispatch("parsePostfix", p3, IndexExpression(value, index.node), 0)
    ELSE IF peekIs(p, "TokenLParen")
    THEN LET args == PDispatch("parseArgs", PDispatch("nextToken", PDispatch("nextToken", p, 0, 0), 0, 0), <<>>, 0)
         IN IF args.err # NoParseError THEN args
            ELSE IF expectCurrent(args.p, "TokenRParen") # NoParseError
            THEN PFail(args.p, expectCurrent(args.p, "TokenRParen"))
            ELSE PDispatch("parsePostfix", args.p, CallExpression(value, args.node), 0)
    ELSE POk(p, value)

parsePostfixValue(p) ==
    LET value == PDispatch("parsePrimaryValue", p, 0, 0)
    IN IF value.err # NoParseError THEN value
       ELSE PDispatch("parsePostfix", value.p, value.node, 0)

\* faulty variant of climbPrecedence: an operator of the same precedence is
\* taken into the right operand, which makes every level right-associative
climbPrecedence_RightAssociative(p, left, minPrecedence) ==
    IF peekPrecedence(p) > minPrecedence
    THEN LET p1         == PDispatch("nextToken", p, 0, 0)
             operator   == Join(p1.current.Value)
             precedence == tokenPrecedence(p1.current.Type)
             right      == PDispatch("parseValueWithPrecedence", PDispatch("nextToken", p1, 0, 0),
                                     precedence - 1, 0)
         IN IF right.err # NoParseError THEN right
            ELSE PDispatch("climbPrecedence", right.p,
                           BinaryOp(left, operator, right.node), minPrecedence)
    ELSE POk(p, left)

\* parseValueWithPrecedence, the precedence-climbing loop
climbPrecedence(p, left, minPrecedence) ==
    IF peekPrecedence(p) > minPrecedence
    THEN LET p1         == PDispatch("nextToken", p, 0, 0)
             operator   == Join(p1.current.Value)
             precedence == tokenPrecedence(p1.current.Type)
             right      == PDispatch("parseValueWithPrecedence", PDispatch("nextToken", p1, 0, 0), precedence, 0)
         IN IF right.err # NoParseError THEN right
            ELSE PDispatch("climbPrecedence", right.p,
                           BinaryOp(left, operator, right.node), minPrecedence)
    ELSE POk(p, left)

parseValueWithPrecedence(p, minPrecedence) ==
    LET left == PDispatch("parsePostfixValue", p, 0, 0)
    IN IF left.err # NoParseError THEN left
       ELSE PDispatch("climbPrecedence", left.p, left.node, minPrecedence)

parseExpression(p) == PDispatch("parseValueWithPrecedence", p, PREC_LOWEST, 0)

\* the loop over the statements of a block, an array or an object, up to a
\* token of stops; in an object a key must be followed by a colon
parseBlock(p, ctx, body) ==
    IF p.current.Type \in ctx.stops THEN POk(p, body)
    ELSE IF currentIs(p, "TokenComment") \/ currentIs(p, "TokenNewline")
    THEN PDispatch("parseBlock", PDispatch("nextToken", p, 0, 0), ctx, body)
    ELSE IF ctx.object /\ p.current.Type \in {"TokenIdent", "TokenString"}
                       /\ ~peekIs(p, "TokenColon")
    THEN PFail(p, error(p, "expected ':'"))
    ELSE LET stmt == PDispatch("parseStatement", p, 0, 0)
             p1   == PDispatch("skipNewlines", PDispatch("nextToken", stmt.p, 0, 0), 0, 0)
             p2   == IF currentIs(p1, "TokenComma") THEN PDispatch("skipNewlines", PDispatch("nextToken", p1, 0, 0), 0, 0) ELSE p1
         IN IF stmt.err # NoParseError THEN stmt
            ELSE PDispatch("parseBlock", p2, ctx, Append(body, stmt.node))

Block(stops) == [stops |-> stops, object |-> FALSE]

parseObject(p) ==
    LET body == PDispatch("parseBlock", PDispatch("skipNewlines", PDispatch("nextToken", p, 0, 0), 0, 0),
                          [stops |-> {"TokenRBrace", "TokenEOF"}, object |-> TRUE], <<>>)
    IN IF body.err # NoParseError THEN body
       ELSE IF ~currentIs(body.p, "TokenRBrace") THEN PFail(body.p, error(body.p, "expected '}'"))
       ELSE POk(body.p, Object(body.node))

parseArray(p) ==
    LET body == PDispatch("parseBlock", PDispatch("skipNewlines", PDispatch("nextToken", p, 0, 0), 0, 0),
                          Block({"TokenRBracket", "TokenEOF"}), <<>>)
    IN IF body.err # NoParseError THEN body
       ELSE IF ~currentIs(body.p, "TokenRBracket")
       THEN PFail(body.p, error(body.p, "expected ']'"))
       ELSE POk(body.p, Array(body.node))

parseValueStatement(p) ==
    CASE currentIs(p, "TokenFor")     -> PDispatch("parseForStatement", p, 0, 0)
      [] currentIs(p, "TokenWith")    -> PDispatch("parseWithStatement", p, 0, 0)
      [] currentIs(p, "TokenIf")      -> PDispatch("parseIfStatement", p, 0, 0)
      [] currentIs(p, "TokenComment") -> POk(p, NilNode)
      [] p.current.Type \in {"TokenEOF", "TokenEnd"} -> POk(p, NilNode)
      [] OTHER                        -> PDispatch("parseExpression", p, 0, 0)

parseKeyValue(p) ==
    LET key   == Join(p.current.Value)
        p1    == PDispatch("nextToken", p, 0, 0)
        value == PDispatch("parseValueStatement", PDispatch("nextToken", p1, 0, 0), 0, 0)
    IN IF expectCurrent(p1, "TokenColon") # NoParseError
       THEN PFail(p1, expectCurrent(p1, "TokenColon"))
       ELSE IF value.err # NoParseError THEN value
       ELSE IF expectStatementEnd(value.p) # NoParseError
       THEN PFail(value.p, expectStatementEnd(value.p))
       ELSE POk(value.p, KeyValueStatement(key, value.node))

\* name = value, after the tokens before the name
parseBinding(p, let) ==
    LET name  == Join(p.current.Value)
        p1    == PDispatch("nextToken", p, 0, 0)
        value == PDispatch("parseValueStatement", PDispatch("nextToken", p1, 0, 0), 0, 0)
    IN IF expectCurrent(p, "TokenIdent") # NoParseError
       THEN PFail(p, expectCurrent(p, "TokenIdent"))
       ELSE IF expectCurrent(p1, "TokenAssign") # NoParseError
       THEN PFail(p1, expectCurrent(p1, "TokenAssign"))
       ELSE IF value.err # NoParseError THEN value
       ELSE POk(value.p, IF let THEN LetStatement(name, value.node)
                         ELSE AssignmentStatement(name, value.node))

parseAssignmentStatement(p) == parseBinding(p, FALSE)

parseLetStatement(p) == parseBinding(PDispatch("nextToken", p, 0, 0), TRUE)

parseSpread(p) ==
    LET operand == PDispatch("parseValueStatement", PDispatch("nextToken", p, 0, 0), 0, 0)
    IN IF operand.err # NoParseError THEN operand
       ELSE POk(operand.p, SpreadStatement(operand.node))

\* parseIfStatement, from the else clause on
parseElse(p, condition, body) ==
    IF currentIs(p, "TokenElse")
    THEN LET p1 == PDispatch("skipNewlines", PDispatch("nextToken", p, 0, 0), 0, 0)
         IN IF currentIs(p1, "TokenIf")
            THEN LET ifStmt == PDispatch("parseIfStatement", p1, 0, 0)
                 IN IF ifStmt.err # NoParseError THEN ifStmt
                    ELSE POk(ifStmt.p, IfStatement(condition, body, <<ifStmt.node>>))
            ELSE LET elseBody == PDispatch("parseBlock", p1, Block({"TokenEnd", "TokenEOF"}), <<>>)
                 IN IF elseBody.err # NoParseError THEN elseBody
                    ELSE IF ~currentIs(elseBody.p, "TokenEnd")
                    THEN PFail(elseBody.p, fmtErrorf("expected 'end'"))
                    ELSE POk(elseBody.p, IfStatement(condition, body, elseBody.node))
    ELSE IF ~currentIs(p, "TokenEnd") THEN PFail(p, fmtErrorf("expected 'end'"))
    ELSE POk(p, IfStatement(condition, body, <<>>))

parseIfStatement(p) ==
    LET condition == PDispatch("parseExpression", PDispatch("nextToken", p, 0, 0), 0, 0)
        p1        == PDispatch("nextToken", condition.p, 0, 0)
        body      == PDispatch("parseBlock", PDispatch("skipNewlines", PDispatch("nextToken", p1, 0, 0), 0, 0),
                               Block({"TokenElse", "TokenEnd", "TokenEOF"}), <<>>)
    IN IF condition.err # NoParseError THEN condition
       ELSE IF expectCurrent(p1, "TokenDo") # NoParseError
       THEN PFail(p1, expectCurrent(p1, "TokenDo"))
       ELSE IF body.err # NoParseError THEN body
       ELSE parseElse(body.p, condition.node, body.node)

\* do, the statements of the body and end
parseDoBlock(p) ==
    LET body == PDispatch("parseBlock", PDispatch("skipNewlines", PDispatch("nextToken", p, 0, 0), 0, 0),
                          Block({"TokenEnd", "TokenEOF"}), <<>>)
    IN IF expectCurrent(p, "TokenDo") # NoParseError
       THEN PFail(p, expectCurrent(p, "TokenDo"))
       ELSE IF body.err # NoParseError THEN body
       ELSE IF ~currentIs(body.p, "TokenEnd") THEN PFail(body.p, fmtErrorf("expected 'end'"))
       ELSE body

parseWithStatement(p) ==
    LET context == PDispatch("parseExpression", PDispatch("nextToken", p, 0, 0), 0, 0)
        p1      == PDispatch("nextToken", context.p, 0, 0)
        p2      == PDispatch("nextToken", p1, 0, 0)
        body    == parseDoBlock(PDispatch("nextToken", p2, 0, 0))
    IN IF context.err # NoParseError THEN context
       ELSE IF expectCurrent(p1, "TokenAs") # NoParseError
       THEN PFail(p1, expectCurrent(p1, "TokenAs"))
       ELSE IF expectCurrent(p2, "TokenIdent") # NoParseError
       THEN PFail(p2, expectCurrent(p2, "TokenIdent"))
       ELSE IF body.err # NoParseError THEN body
       ELSE POk(body.p, WithStatement(context.node, Join(p2.current.Value), body.node))

parseForStatement(p) ==
    LET p1       == PDispatch("nextToken", p, 0, 0)
        p2       == PDispatch("nextToken", p1, 0, 0)
        p3       == PDispatch("nextToken", p2, 0, 0)
        p4       == PDispatch("nextToken", p3, 0, 0)
        iterable == PDispatch("parseExpression", PDispatch("nextToken", p4, 0, 0), 0, 0)
        body     == parseDoBlock(PDispatch("nextToken", iterable.p, 0, 0))
    IN IF expectCurrent(p1, "TokenIdent") # NoParseError
       THEN PFail(p1, expectCurrent(p1, "TokenIdent"))
       ELSE IF expectCurrent(p2, "TokenComma") # NoParseError
       THEN PFail(p2, expectCurrent(p2, "TokenComma"))
       ELSE IF expectCurrent(p3, "TokenIdent") # NoParseError
       THEN PFail(p3, expectCurrent(p3, "TokenIdent"))
       ELSE IF expectCurrent(p4, "TokenIn") # NoParseError
       THEN PFail(p4, expectCurrent(p4, "TokenIn"))
       ELSE IF iterable.err # NoParseError THEN iterable
       ELSE IF body.err # NoParseError THEN body
       ELSE POk(body.p, ForStatement(Join(p1.current.Value), Join(p3.current.Value),
                                     iterable.node, body.node))

parseStatement(p) ==
    LET t == p.current.Type
    IN CASE t = "TokenFor"      -> PDispatch("parseForStatement", p, 0, 0)
         [] t = "TokenWith"     -> PDispatch("parseWithStatement", p, 0, 0)
         [] t = "TokenBreak"    -> POk(p, BreakStatement)
         [] t = "TokenContinue" -> POk(p, ContinueStatement)
         [] t = "TokenLet"      -> PDispatch("parseLetStatement", p, 0, 0)
         [] t = "TokenSpread"   -> PDispatch("parseSpread", p, 0, 0)
         [] t = "TokenIf"       -> PDispatch("parseIfStatement", p, 0, 0)
         [] t = "TokenComment"  -> POk(p, NilNode)
         [] t = "TokenString" /\ peekIs(p, "TokenColon") -> PDispatch("parseKeyValue", p, 0, 0)
         [] t = "TokenIdent" /\ peekIs(p, "TokenAssign") -> PDispatch("parseAssignmentStatement", p, 0, 0)
         [] t = "TokenIdent" /\ peekIs(p, "TokenColon")  -> PDispatch("parseKeyValue", p, 0, 0)
         [] t \in {"TokenEOF", "TokenEnd"} -> POk(p, NilNode)
         [] OTHER -> PDispatch("parseExpression", p, 0, 0)

parseDefinition(p) ==
    LET p1 == PDispatch("nextToken", p, 0, 0)
        p2 == PDispatch("nextToken", p1, 0, 0)
        p3 == PDispatch("nextToken", p2, 0, 0)
        p4 == PDispatch("nextToken", p3, 0, 0)
    IN IF expectCurrent(p1, "TokenLParen") # NoParseError
       THEN PFail(p1, expectCurrent(p1, "TokenLParen"))
       ELSE IF expectCurrent(p2, "TokenString") # NoParseError
       THEN PFail(p2, expectCurrent(p2, "TokenString"))
       ELSE IF expectCurrent(p3, "TokenRParen") # NoParseError
       THEN PFail(p3, expectCurrent(p3, "TokenRParen"))
       ELSE IF currentIs(p4, "TokenDo")
       THEN LET body == PDispatch("parseBlock", PDispatch("skipNewlines", PDispatch("nextToken", p4, 0, 0), 0, 0),
                                  Block({"TokenEnd", "TokenEOF"}), <<>>)
            IN IF body.err # NoParseError THEN body
               ELSE IF expectCurrent(body.p, "TokenEnd") # NoParseError
               THEN PFail(body.p, expectCurrent(body.p, "TokenEnd"))
               ELSE POk(PDispatch("nextToken", body.p, 0, 0), Definition(Join(p2.current.Value), body.node))
       ELSE LET value == PDispatch("parseExpression", p4, 0, 0)
            IN IF value.err # NoParseError THEN value
               ELSE POk(PDispatch("nextToken", value.p, 0, 0), Definition(Join(p2.current.Value), <<value.node>>))

PDispatch(fn, p, x, y) ==
    CASE fn = "parseExpression"          -> parseExpression(p)
      [] fn = "parseValueWithPrecedence" -> parseValueWithPrecedence(p, x)
      [] fn = "climbPrecedence"          -> climbPrecedence(p, x, y)
      [] fn = "parsePostfixValue"        -> parsePostfixValue(p)
      [] fn = "parsePostfix"             -> parsePostfix(p, x)
      [] fn = "parseArgs"                -> parseArgs(p, x)
      [] fn = "parsePrimaryValue"        -> parsePrimaryValue(p)
      [] fn = "parseStringLiteral"       -> parseStringLiteral(p)
      [] fn = "splitParts"               -> splitParts(p, x, y[1], y[2])
      [] fn = "parseIncludeExpression"   -> parseIncludeExpression(p)
      [] fn = "parseObject"              -> parseObject(p)
      [] fn = "parseArray"               -> parseArray(p)
      [] fn = "parseBlock"               -> parseBlock(p, x, y)
      [] fn = "parseValueStatement"      -> parseValueStatement(p)
      [] fn = "parseStatement"           -> parseStatement(p)
      [] fn = "parseIfStatement"         -> parseIfStatement(p)
      [] fn = "parseWithStatement"       -> parseWithStatement(p)
      [] fn = "parseForStatement"        -> parseForStatement(p)
      [] fn = "parseLetStatement"        -> parseLetStatement(p)
      [] fn = "parseAssignmentStatement" -> parseAssignmentStatement(p)
      [] fn = "parseKeyValue"            -> parseKeyValue(p)
      [] fn = "parseSpread"              -> parseSpread(p)
      [] fn = "parseDefinition"          -> parseDefinition(p)
      [] fn = "nextToken"                -> nextToken(p)
      [] fn = "skipNewlines"             -> skipNewlines(p)

(***************************************************************************)
(* Built-in functions (eval/internal/funcs/funcs.go).  A function takes    *)
(* the store and the argument values and returns a value or an error; a    *)
(* container it returns is allocated in the store.  Strings of the model   *)
(* hold no newline.                                                        *)
(***************************************************************************)
\* not an error value: the run-time panic of strings.Repeat with a negative
\* count, which unwinds every caller and ends the program
stringsRepeatPanic ==
    [msg |-> "panic: strings: negative Repeat count", wrap |-> 0, typed |-> FALSE]

RECURSIVE Repeated(_, _)
Repeated(s, count) == IF count = 0 THEN "" ELSE s \o Repeated(s, count - 1)

\* strings.Repeat(s, count)
stringsRepeat(s, count) ==
    IF count < 0 THEN [ok |-> FALSE, s |-> ""] ELSE [ok |-> TRUE, s |-> Repeated(s, count)]

StringPrefixes == {"", "-", "-1", "2", "a", "n", "nu", "nul", "null"}

StringSuffixes == {"", "1", "-1", "2", "a", "l", "ll", "ull", "null"}

\* str[:n], for n <= len(str)
Prefix(str, n) ==
    CHOOSE s \in StringPrefixes : Len(s) = n /\ \E t \in StringSuffixes : s \o t = str

\* &runtime.ArrayValue{Elements: elements}
NewArray(st, elements) ==
    LET a == Alloc(st, "array")
    IN Ok(ArrayAppend(a.st, a.id, elements), ArrayValue(a.id))

\* runtime.NewObject() followed by result.Set(k, v) for every field of fields
NewObject(st, fields) ==
    LET o == Alloc(st, "object")
        F[i \in 0..Len(fields)] ==
            IF i = 0 THEN o.st ELSE ObjectSet(F[i - 1], o.id, fields[i].k, fields[i].v)
    IN Ok(F[Len(fields)], ObjectValue(o.id))

nindentFunc(st, args) ==
    IF Len(args) # 2 THEN Fail(st, Errorf("nindent expects 2 arguments"))
    ELSE IF ~runtimeToString(args[1]).ok THEN Fail(st, Errorf("cannot convert to string"))
    ELSE IF ~ToNumber(args[2]).ok THEN Fail(st, Errorf("cannot convert to number"))
    ELSE LET str    == runtimeToString(args[1]).s
             indent == stringsRepeat(" ", ToNumber(args[2]).n)
         IN IF ~indent.ok THEN Fail(st, stringsRepeatPanic)
            ELSE Ok(st, NewString(IF str # "" THEN indent.s \o str ELSE str))

truncFunc(st, args) ==
    IF Len(args) # 2 THEN Fail(st, Errorf("trunc expects 2 arguments"))
    ELSE IF ~runtimeToString(args[1]).ok THEN Fail(st, Errorf("cannot convert to string"))
    ELSE IF ~ToNumber(args[2]).ok THEN Fail(st, Errorf("cannot convert to number"))
    ELSE LET str    == runtimeToString(args[1]).s
             maxLen == ToNumber(args[2]).n
             n      == IF maxLen < 0 THEN 0 ELSE maxLen
         IN IF Len(str) <= n THEN Ok(st, NewString(str))
            ELSE Ok(st, NewString(Prefix(str, n)))

initialFunc(st, args) ==
    IF Len(args) # 1 THEN Fail(st, Errorf("initial expects 1 argument"))
    ELSE IF args[1].t # "array" THEN Fail(st, Errorf("initial expects an array"))
    ELSE LET elements == st.heap[args[1].n].elems
         IN IF Len(elements) = 0 THEN NewArray(st, <<>>)
            ELSE NewArray(st, SubSeq(elements, 1, Len(elements) - 1))

restFunc(st, args) ==
    IF Len(args) # 1 THEN Fail(st, Errorf("rest expects 1 argument"))
    ELSE IF args[1].t # "array" THEN Fail(st, Errorf("rest expects an array"))
    ELSE LET elements == st.heap[args[1].n].elems
         IN IF Len(elements) = 0 THEN NewArray(st, <<>>)
            ELSE NewArray(st, Tail(elements))

appendFunc(st, args) ==
    IF Len(args) < 2 THEN Fail(st, Errorf("append expects at least 2 arguments"))
    ELSE IF args[1].t # "array"
    THEN Fail(st, Errorf("append expects first argument to be an array"))
    ELSE NewArray(st, st.heap[args[1].n].elems \o Tail(args))

prependFunc(st, args) ==
    IF Len(args) < 2 THEN Fail(st, Errorf("prepend expects at least 2 arguments"))
    ELSE IF args[1].t # "array"
    THEN Fail(st, Errorf("prepend expects first argument to be an array"))
    ELSE NewArray(st, Tail(args) \o st.heap[args[1].n].elems)

\* concatFunc, the loop over the arguments
RECURSIVE concatLoop(_, _, _, _)
concatLoop(st, args, i, result) ==
    IF i > Len(args) THEN NewArray(st, result)
    ELSE IF args[i].t # "array"
    THEN Fail(st, Errorf("concat expects all arguments to be arrays"))
    ELSE concatLoop(st, args, i + 1, result \o st.heap[args[i].n].elems)

concatFunc(st, args) ==
    IF Len(args) = 0 THEN NewArray(st, <<>>) ELSE concatLoop(st, args, 1, <<>>)

reverseFunc(st, args) ==
    IF Len(args) # 1 THEN Fail(st, Errorf("reverse expects 1 argument"))
    ELSE IF args[1].t # "array" THEN Fail(st, Errorf("reverse expects an array"))
    ELSE LET elements == st.heap[args[1].n].elems
         IN NewArray(st, [i \in 1..Len(elements) |-> elements[Len(elements) + 1 - i]])

\* uniqFunc, the loop over the elements; an element is known by its string,
\* and the error of runtime.ToString is dropped
RECURSIVE uniqLoop(_, _, _, _)
uniqLoop(elements, i, seen, result) ==
    IF i > Len(elements) THEN result
    ELSE LET str == runtimeToString(elements[i]).s
         IN IF str \in seen THEN uniqLoop(elements, i + 1, seen, result)
            ELSE uniqLoop(elements, i + 1, seen \cup {str}, Append(result, elements[i]))

uniqFunc(st, args) ==
    IF Len(args) # 1 THEN Fail(st, Errorf("uniq expects 1 argument"))
    ELSE IF args[1].t # "array" THEN Fail(st, Errorf("uniq expects an array"))
    ELSE NewArray(st, uniqLoop(st.heap[args[1].n].elems, 1, {}, <<>>))

repeatFunc(st, args) ==
    IF Len(args) # 2 THEN Fail(st, Errorf("repeat expects 2 arguments"))
    ELSE IF ~ToNumber(args[1]).ok THEN Fail(st, Errorf("cannot convert to number"))
    ELSE IF ~runtimeToString(args[2]).ok THEN Fail(st, Errorf("cannot convert to string"))
    ELSE LET repeated == stringsRepeat(runtimeToString(args[2]).s, ToNumber(args[1]).n)
         IN IF ~repeated.ok THEN Fail(st, stringsRepeatPanic)
            ELSE Ok(st, NewString(repeated.s))

\* the keys named by args[2:], or the first argument that is no string
keysOf(args) ==
    IF \E i \in 2..Len(args) : ~runtimeToString(args[i]).ok THEN [ok |-> FALSE, keys |-> {}]
    ELSE [ok |-> TRUE, keys |-> {runtimeToString(args[i]).s : i \in 2..Len(args)}]

pickFunc(st, args) ==
    IF Len(args) < 2 THEN Fail(st, Errorf("pick expects at least 2 arguments"))
    ELSE IF args[1].t # "object"
    THEN Fail(st, Errorf("pick expects first argument to be an object"))
    ELSE IF ~keysOf(args).ok THEN Fail(st, Errorf("cannot convert to string"))
    ELSE NewObject(st, SelectSeq(st.heap[args[1].n].fields,
                                 LAMBDA f : f.k \in keysOf(args).keys))

omitFunc(st, args) ==
    IF Len(args) < 2 THEN Fail(st, Errorf("omit expects at least 2 arguments"))
    ELSE IF args[1].t # "object"
    THEN Fail(st, Errorf("omit expects first argument to be an object"))
    ELSE IF ~keysOf(args).ok THEN Fail(st, Errorf("cannot convert to string"))
    ELSE NewObject(st, SelectSeq(st.heap[args[1].n].fields,
                                 LAMBDA f : f.k \notin keysOf(args).keys))

\* mergeFunc, the loop over the arguments
RECURSIVE mergeLoop(_, _, _, _)
mergeLoop(st, args, i, fields) ==
    IF i > Len(args) THEN NewObject(st, fields)
    ELSE IF args[i].t # "object"
    THEN Fail(st, Errorf("merge expects all arguments to be objects"))
    ELSE mergeLoop(st, args, i + 1, fields \o st.heap[args[i].n].fields)

mergeFunc(st, args) ==
    IF Len(args) = 0 THEN NewObject(st, <<>>) ELSE mergeLoop(st, args, 1, <<>>)

\* faulty variant of setFunc: the field is set on the argument
setFunc_InPlace(st, args) ==
    IF Len(args) # 3 THEN Fail(st, Errorf("set expects 3 arguments"))
    ELSE IF args[1].t # "object"
    THEN Fail(st, Errorf("set expects first argument to be an object"))
    ELSE IF ~runtimeToString(args[2]).ok THEN Fail(st, Errorf("cannot convert to string"))
    ELSE Ok(ObjectSet(st, args[1].n, runtimeToString(args[2]).s, args[3]), args[1])

setFunc(st, args) ==
    IF Len(args) # 3 THEN Fail(st, Errorf("set expects 3 arguments"))
    ELSE IF args[1].t # "object"
    THEN Fail(st, Errorf("set expects first argument to be an object"))
    ELSE IF ~runtimeToString(args[2]).ok THEN Fail(st, Errorf("cannot convert to string"))
    ELSE NewObject(st, Append(st.heap[args[1].n].fields,
                              [k |-> runtimeToString(args[2]).s, v |-> args[3]]))

\* Registry[name](args...)
Registry(name, st, args) ==
    CASE name = "nindent"  -> nindentFunc(st, args)
      [] name = "trunc"    -> truncFunc(st, args)
      [] name = "initial"  -> initialFunc(st, args)
      [] name = "rest"     -> restFunc(st, args)
      [] name = "append"   -> appendFunc(st, args)
      [] name = "prepend"  -> prependFunc(st, args)
      [] name = "concat"   -> concatFunc(st, args)
      [] name = "reverse"  -> reverseFunc(st, args)
      [] name = "uniq"     -> uniqFunc(st, args)
      [] name = "repeat"   -> repeatFunc(st, args)
      [] name = "pick"     -> pickFunc(st, args)
      [] name = "omit"     -> omitFunc(st, args)
      [] name = "merge"    -> mergeFunc(st, args)
      [] name = "set"      -> setFunc(st, args)

(***************************************************************************)
(* EvalDocument (eval/eval.go) as a state machine.  The input is a         *)
(* Document and an initial scope prepared by the host; scenario records    *)
(* how the Document was built, so that properties can name the inputs      *)
(* they are about.                                                         *)
(***************************************************************************)
VARIABLES scenario,  \* description of the input this behaviour evaluates
          doc,       \* the parser.Document handed to EvalDocument
          st,        \* the evaluation store
          pc,        \* "define", "body", "done" (EvalDocument); "New", "Parse", "parsed", "panic" (parser)
          idx,       \* position of EvalDocument in doc.Body
          err,       \* the error EvalDocument returned, NoErr if none
          result,    \* the ArrayValue EvalDocument returned
          parser     \* the Parser: its lexer and its token window

vars == <<scenario, doc, st, pc, idx, err, result, parser>>

rootScope == 1

NoResult == [ok |-> FALSE, Elements |-> <<>>]

Scenario(family, kind, kind2, body, xs, pre, post, flag) ==
    [family |-> family, kind |-> kind, kind2 |-> kind2, body |-> body,
     xs |-> xs, pre |-> pre, post |-> post, flag |-> flag]

SeqsUpTo(S, n) == UNION {[1..k -> S] : k \in 0..n}

Numbers(xs) == [i \in 1..Len(xs) |-> NumberLiteral(xs[i])]

(***************************************************************************)
(* Inputs with an include statement in every kind of collector, directly   *)
(* in the literal or inside an if / for / with body in it.                 *)
(***************************************************************************)
KeyValuePool ==
    {KeyValueStatement("a", NumberLiteral(1)), KeyValueStatement("b", NumberLiteral(2)),
     KeyValueStatement("a", NumberLiteral(3))}

ValuePool == {NumberLiteral(1), NumberLiteral(2), NullLiteral}

Containers == {"object", "array", "root"}

Nestings == {"direct", "if", "for", "with"}

IncludeScenarios ==
    {Scenario("include", c, w, b, <<>>, <<>>, <<>>, FALSE) :
        c \in {"array", "root"}, w \in Nestings, b \in SeqsUpTo(ValuePool, MaxItems)}
    \cup
    {Scenario("include", "object", w, b, <<>>, <<>>, <<>>, FALSE) :
        w \in Nestings, b \in SeqsUpTo(KeyValuePool, MaxItems)}

Nest(w, item) ==
    CASE w = "direct" -> item
      [] w = "if"     -> IfStatement(BooleanLiteral(TRUE), <<item>>, <<>>)
      [] w = "for"    -> ForStatement("i", "v", Array(<<NumberLiteral(0)>>), <<item>>)
      [] w = "with"   -> WithStatement(NumberLiteral(1), "w", <<item>>)

IncludeDoc(sc) ==
    LET inc == Nest(sc.kind2, IncludeExpression("t", <<>>))
        top == CASE sc.kind = "object" -> KeyValueStatement("r", Object(<<inc>>))
                 [] sc.kind = "array"  -> KeyValueStatement("r", Array(<<inc>>))
                 [] sc.kind = "root"   -> inc
    IN Document(<<top>>, <<Definition("t", sc.body)>>)

(***************************************************************************)
(* Inputs with a control-flow statement between the elements of an array   *)
(* literal:  let items = [xs]                                              *)
(*           results: [pre..., for i, item in items do f end, post...]     *)
(* and the same with  if flag do 5, 6 else 7 end  and                      *)
(* with 4 as w do w, w * 2 end  in the place of the for.                   *)
(***************************************************************************)
ElemPool == {1, 2}

Affixes == {<<>>, <<9>>}

LoopBodies == {"double", "sum", "index"}

ControlScenarios ==
    {Scenario("control", "for", f, <<>>, xs, pre, post, FALSE) :
        f \in LoopBodies, xs \in SeqsUpTo(ElemPool, MaxElems),
        pre \in Affixes, post \in Affixes}
    \cup
    {Scenario("control", k, "", <<>>, <<>>, pre, post, flag) :
        k \in {"if", "with"}, pre \in Affixes, post \in Affixes, flag \in BOOLEAN}

LoopBody(f) ==
    CASE f = "double" -> BinaryOp(Identifier("item"), "*", NumberLiteral(2))
      [] f = "sum"    -> BinaryOp(Identifier("item"), "+", Identifier("i"))
      [] f = "index"  -> Identifier("i")

ControlDoc(sc) ==
    LET ctl == CASE sc.kind = "for" ->
                      ForStatement("i", "item", Identifier("items"), <<LoopBody(sc.kind2)>>)
                 [] sc.kind = "if" ->
                      IfStatement(BooleanLiteral(sc.flag),
                                  <<NumberLiteral(5), NumberLiteral(6)>>, <<NumberLiteral(7)>>)
                 [] sc.kind = "with" ->
                      WithStatement(NumberLiteral(4), "w",
                          <<Identifier("w"), BinaryOp(Identifier("w"), "*", NumberLiteral(2))>>)
    IN Document(<<LetStatement("items", Array(Numbers(sc.xs))),
                  KeyValueStatement("results",
                      Array(Numbers(sc.pre) \o <<ctl>> \o Numbers(sc.post)))>>,
                <<>>)


(***************************************************************************)
(* Inputs that are a sequence of top-level statements:                     *)
(*   let o = {a: 1}   followed by up to MaxStmts of                        *)
(*   1 | {a: 1} | [] | k: 2 | a: 5 | o                                     *)
(***************************************************************************)
MaxStmts == 3

RootPool ==
    {NumberLiteral(1), Object(<<KeyValueStatement("a", NumberLiteral(1))>>), Array(<<>>),
     KeyValueStatement("k", NumberLiteral(2)), KeyValueStatement("a", NumberLiteral(5)),
     Identifier("o")}

RootScenarios ==
    {Scenario("root", "", "", b, <<>>, <<>>, <<>>, FALSE) : b \in SeqsUpTo(RootPool, MaxStmts)}

RootDoc(sc) ==
    Document(<<LetStatement("o", Object(<<KeyValueStatement("a", NumberLiteral(1))>>))>>
             \o sc.body, <<>>)

(***************************************************************************)
(* Inputs with an if, a with or an include where a single value is         *)
(* expected:   r: if true do body end                                      *)
(*             r: with 1 as w do body end                                  *)
(*             define("t") do body end   r: include("t")                   *)
(* with a body of up to MaxItems of                                        *)
(*   7 | null | let y = 1 | if true do 8 end | if false do 8 end |         *)
(*   for v in [1, 2] do v end                                              *)
(***************************************************************************)
SinglePool ==
    {NumberLiteral(7), NullLiteral, LetStatement("y", NumberLiteral(1)),
     IfStatement(BooleanLiteral(TRUE), <<NumberLiteral(8)>>, <<>>),
     IfStatement(BooleanLiteral(FALSE), <<NumberLiteral(8)>>, <<>>),
     ForStatement("", "v", Array(<<NumberLiteral(1), NumberLiteral(2)>>), <<Identifier("v")>>)}

SingleScenarios ==
    {Scenario("single", k, "", b, <<>>, <<>>, <<>>, FALSE) :
        k \in {"if", "with", "include"}, b \in SeqsUpTo(SinglePool, MaxItems)}

SingleDoc(sc) ==
    CASE sc.kind = "if" ->
            Document(<<KeyValueStatement("r",
                          IfStatement(BooleanLiteral(TRUE), sc.body, <<>>))>>, <<>>)
      [] sc.kind = "with" ->
            Document(<<KeyValueStatement("r",
                          WithStatement(NumberLiteral(1), "w", sc.body))>>, <<>>)
      [] sc.kind = "include" ->
            Document(<<KeyValueStatement("r", IncludeExpression("t", <<>>))>>,
                     <<Definition("t", sc.body)>>)

(***************************************************************************)
(* Inputs about the scope of an included template.                         *)
(*   "in":   the caller binds x to a number by let, assignment, for or     *)
(*           with, emits x, and includes t (with no context or with the    *)
(*           context {c: 5}) where x is bound; t's body is  x              *)
(*   "out":  the caller optionally binds x by let, includes t, whose body  *)
(*           is  let x = 9  or  x = 9, and then evaluates  r: x            *)
(***************************************************************************)
Binders == {"let", "assign", "for", "with"}

IsolationScenarios ==
    {Scenario("isolate", "in", b, <<>>, <<v>>, <<>>, <<>>, ctx) :
        b \in Binders, v \in ElemPool, ctx \in BOOLEAN}
    \cup
    {Scenario("isolate", "out", b, <<>>, <<v>>, <<>>, <<>>, bound) :
        b \in {"let", "assign"}, v \in ElemPool, bound \in BOOLEAN}

IsolationDoc(sc) ==
    LET v   == NumberLiteral(sc.xs[1])
        x   == Identifier("x")
        inc == IncludeExpression("t",
                   IF sc.kind = "in" /\ sc.flag
                   THEN <<Object(<<KeyValueStatement("c", NumberLiteral(5))>>)>>
                   ELSE <<>>)
        bind(name, val) == IF sc.kind2 = "let" THEN LetStatement(name, val)
                           ELSE AssignmentStatement(name, val)
    IN IF sc.kind = "in"
       THEN Document(
                CASE sc.kind2 \in {"let", "assign"} -> <<bind("x", v), x, inc>>
                  [] sc.kind2 = "for" ->
                        <<ForStatement("", "x", Array(<<v>>), <<x, inc>>)>>
                  [] sc.kind2 = "with" -> <<WithStatement(v, "x", <<x, inc>>)>>,
                <<Definition("t", <<x>>)>>)
       ELSE Document(
                (IF sc.flag THEN <<LetStatement("x", v)>> ELSE <<>>)
                    \o <<inc, KeyValueStatement("r", x)>>,
                <<Definition("t", <<bind("x", NumberLiteral(9))>>)>>)

(***************************************************************************)
(* Inputs evaluated in an initial scope in which the host bound Values to  *)
(* the object {app: v}, by Scope.Set or by Scope.SetGlobal:                *)
(*   define("makeLabel") do app: Values.app  always: "always" end          *)
(*   labels: { include("makeLabel") }                                      *)
(***************************************************************************)
HostScenarios ==
    {Scenario("host", how, app, <<>>, <<>>, <<>>, <<>>, FALSE) :
        how \in {"Set", "SetGlobal"}, app \in {"foo", "bar"}}

HostDoc(sc) ==
    Document(<<KeyValueStatement("labels",
                   Object(<<IncludeExpression("makeLabel", <<>>)>>))>>,
             <<Definition("makeLabel",
                   <<KeyValueStatement("app", MemberExpression(Identifier("Values"), "app")),
                     KeyValueStatement("always", StringLiteral("always"))>>)>>)

(***************************************************************************)
(* Inputs with a break or a continue in a for body:                        *)
(*   results: [9, for i, item in [xs] do item, ctl, item + 10 end, 8]      *)
(* where ctl is  break | if item - 1 do break end | with 1 as w do break   *)
(* end | continue | if item - 1 do continue end  (item - 1 is truthy for   *)
(* every item but 1).                                                      *)
(***************************************************************************)
BreakKinds == {"break", "ifBreak", "withBreak"}

ContinueKinds == {"continue", "ifContinue"}

LoopScenarios ==
    {Scenario("loop", k, "", <<>>, xs, <<9>>, <<8>>, FALSE) :
        k \in BreakKinds \cup ContinueKinds, xs \in SeqsUpTo(ElemPool, MaxElems)}

LoopControl(k) ==
    LET cond == BinaryOp(Identifier("item"), "-", NumberLiteral(1))
    IN CASE k = "break"      -> BreakStatement
         [] k = "ifBreak"    -> IfStatement(cond, <<BreakStatement>>, <<>>)
         [] k = "withBreak"  -> WithStatement(NumberLiteral(1), "w", <<BreakStatement>>)
         [] k = "continue"   -> ContinueStatement
         [] k = "ifContinue" -> IfStatement(cond, <<ContinueStatement>>, <<>>)

LoopDoc(sc) ==
    Document(<<KeyValueStatement("results",
                   Array(Numbers(sc.pre)
                         \o <<ForStatement("i", "item", Array(Numbers(sc.xs)),
                                  <<Identifier("item"), LoopControl(sc.kind),
                                    BinaryOp(Identifier("item"), "+", NumberLiteral(10))>>)>>
                         \o Numbers(sc.post)))>>,
             <<>>)

(***************************************************************************)
(* Inputs about let and assignment, for numbers a and b:                   *)
(*   "same":        let x = a     x = b     result: x                      *)
(*   "for", "with": [let x = a]                                            *)
(*                  for v in [0] do (x = b | let x = b), x end             *)
(*                  out: x                                                 *)
(*                  (or  with 0 as w do ... end  in place of the for)      *)
(***************************************************************************)
AssignScenarios ==
    {Scenario("assign", "same", "assign", <<>>, <<a, b>>, <<>>, <<>>, TRUE) :
        a \in ElemPool, b \in ElemPool}
    \cup
    {Scenario("assign", k, s, <<>>, <<a, b>>, <<>>, <<>>, bound) :
        k \in {"for", "with"}, s \in {"assign", "let"},
        a \in ElemPool, b \in ElemPool, bound \in BOOLEAN}

AssignDoc(sc) ==
    LET x     == Identifier("x")
        a     == NumberLiteral(sc.xs[1])
        b     == NumberLiteral(sc.xs[2])
        inner == IF sc.kind2 = "assign" THEN AssignmentStatement("x", b)
                 ELSE LetStatement("x", b)
        outer == IF sc.flag THEN <<LetStatement("x", a)>> ELSE <<>>
    IN CASE sc.kind = "same" ->
               Document(outer \o <<inner, KeyValueStatement("result", x)>>, <<>>)
         [] sc.kind = "for" ->
               Document(outer
                        \o <<ForStatement("", "v", Array(<<NumberLiteral(0)>>), <<inner, x>>),
                             KeyValueStatement("out", x)>>, <<>>)
         [] sc.kind = "with" ->
               Document(outer
                        \o <<WithStatement(NumberLiteral(0), "w", <<inner, x>>),
                             KeyValueStatement("out", x)>>, <<>>)

(***************************************************************************)
(* Inputs whose parse leaves a nil node in the tree.  parseValueStatement  *)
(* returns no node and no error at TokenEOF, TokenEnd and TokenComment, so *)
(*   a:      let x =      x =                                              *)
(* at the end of the input or of a block are statements with a nil Value,  *)
(* and parseStatement does the same, so  { end }  and  [ end ]  are        *)
(* literals whose Body holds one nil node.  The statement stands at the    *)
(* root, in the body of an if, for or with, or in the body of a template   *)
(* that the root includes; flag FALSE gives the same input with the value  *)
(* 1 (or with an empty literal).                                           *)
(***************************************************************************)
NilKinds == {"keyvalue", "let", "assign", "object", "array"}

NilScenarios ==
    {Scenario("nil", k, w, <<>>, <<>>, <<>>, <<>>, absent) :
        k \in NilKinds, w \in Nestings \cup {"include"}, absent \in BOOLEAN}

NilItem(sc) ==
    LET v    == IF sc.flag THEN NilNode ELSE NumberLiteral(1)
        body == IF sc.flag THEN <<NilNode>> ELSE <<>>
    IN CASE sc.kind = "keyvalue" -> KeyValueStatement("a", v)
         [] sc.kind = "let"      -> LetStatement("x", v)
         [] sc.kind = "assign"   -> AssignmentStatement("x", v)
         [] sc.kind = "object"   -> KeyValueStatement("r", Object(body))
         [] sc.kind = "array"    -> KeyValueStatement("r", Array(body))

NilDoc(sc) ==
    IF sc.kind2 = "include"
    THEN Document(<<IncludeExpression("t", <<>>)>>, <<Definition("t", <<NilItem(sc)>>)>>)
    ELSE Document(<<Nest(sc.kind2, NilItem(sc))>>, <<>>)

(***************************************************************************)
(* Inputs with one binary operation:   r: left op right                    *)
(* for every operator of evalBinaryOp's switch and operands among          *)
(*   0 | 1 | "a" | "1" | true | false | null | [] | {} | u | 1 / 0         *)
(* where u is bound nowhere, so that the last two operands fail.           *)
(***************************************************************************)
Operators == {"+", "-", "*", "/", "==", "!=", "<", "<=", ">", ">=", "&&", "||"}

OperandPool ==
    {NumberLiteral(0), NumberLiteral(1), StringLiteral("a"), StringLiteral("1"),
     BooleanLiteral(TRUE), BooleanLiteral(FALSE), NullLiteral, Array(<<>>), Object(<<>>),
     Identifier("u"), BinaryOp(NumberLiteral(1), "/", NumberLiteral(0))}

OperatorScenarios ==
    {Scenario("ops", op, "", <<l, r>>, <<>>, <<>>, <<>>, FALSE) :
        op \in Operators, l \in OperandPool, r \in OperandPool}

OperatorDoc(sc) ==
    Document(<<KeyValueStatement("r", BinaryOp(sc.body[1], sc.kind, sc.body[2]))>>, <<>>)

(***************************************************************************)
(* Inputs with a pipe or a call.  The host has registered the functions    *)
(* concat, wrap and fail; g is registered nowhere.  x is "x", the unbound  *)
(* u or 1 / 0, the arguments are up to MaxItems of "a", "b" and u.         *)
(*   "bare":    r: x | f                 "call1":  r: f(x)                 *)
(*   "pipe":    r: x | f(args)           "call":   r: f(args, x)           *)
(*   "chain":   r: x | f | wrap          "nested": r: wrap(f(x))           *)
(*   "invalid": r: x | rhs  with rhs one of  "s",  5,  a.b,  a.b(x)        *)
(***************************************************************************)
FunctionNames == {"concat", "wrap", "fail", "g"}

PipedPool == {StringLiteral("x"), Identifier("u"),
              BinaryOp(NumberLiteral(1), "/", NumberLiteral(0))}

ArgumentPool == {StringLiteral("a"), StringLiteral("b"), Identifier("u")}

InvalidPipeTargets ==
    {StringLiteral("s"), NumberLiteral(5), MemberExpression(Identifier("a"), "b"),
     CallExpression(MemberExpression(Identifier("a"), "b"), <<StringLiteral("x")>>)}

PipeScenarios ==
    {Scenario("pipe", k, f, <<x>> \o args, <<>>, <<>>, <<>>, FALSE) :
        k \in {"pipe", "call"}, f \in FunctionNames, x \in PipedPool,
        args \in SeqsUpTo(ArgumentPool, MaxItems)}
    \cup
    {Scenario("pipe", k, f, <<x>>, <<>>, <<>>, <<>>, FALSE) :
        k \in {"bare", "call1", "chain", "nested"}, f \in FunctionNames, x \in PipedPool}
    \cup
    {Scenario("pipe", "invalid", "", <<x, rhs>>, <<>>, <<>>, <<>>, FALSE) :
        x \in PipedPool, rhs \in InvalidPipeTargets}

PipeDoc(sc) ==
    LET x    == sc.body[1]
        args == Tail(sc.body)
        f    == Identifier(sc.kind2)
        expr == CASE sc.kind = "bare"    -> BinaryOp(x, "|", f)
                  [] sc.kind = "call1"   -> CallExpression(f, <<x>>)
                  [] sc.kind = "pipe"    -> BinaryOp(x, "|", CallExpression(f, args))
                  [] sc.kind = "call"    -> CallExpression(f, Append(args, x))
                  [] sc.kind = "chain"   ->
                        BinaryOp(BinaryOp(x, "|", f), "|", Identifier("wrap"))
                  [] sc.kind = "nested"  ->
                        CallExpression(Identifier("wrap"), <<CallExpression(f, <<x>>)>>)
                  [] sc.kind = "invalid" -> BinaryOp(x, "|", sc.body[2])
    IN Document(<<KeyValueStatement("r", expr)>>, <<>>)

(***************************************************************************)
(* Inputs with spread.                                                     *)
(*   "object":  r: { items }   items: key-values of a and b, and spreads   *)
(*   "array":   r: [ items ]   items: numbers and spreads                  *)
(*   "root":    spread x       at document top level                       *)
(* The operands of spread are object literals, array literals and scalars. *)
(***************************************************************************)
SpreadOperands ==
    {Object(<<KeyValueStatement("a", NumberLiteral(4))>>),
     Object(<<KeyValueStatement("a", NumberLiteral(5)), KeyValueStatement("b", NumberLiteral(6))>>),
     Array(<<NumberLiteral(2), NumberLiteral(3)>>),
     Array(<<>>),
     NumberLiteral(7), StringLiteral("s"), NullLiteral}

ObjectItems ==
    {KeyValueStatement("a", NumberLiteral(1)), KeyValueStatement("a", NumberLiteral(2)),
     KeyValueStatement("b", NumberLiteral(3))}
    \cup {SpreadStatement(x) : x \in SpreadOperands}

ArrayItems == {NumberLiteral(1)} \cup {SpreadStatement(x) : x \in SpreadOperands}

SpreadScenarios ==
    {Scenario("spread", "object", "", items, <<>>, <<>>, <<>>, FALSE) :
        items \in SeqsUpTo(ObjectItems, MaxStmts)}
    \cup
    {Scenario("spread", "array", "", items, <<>>, <<>>, <<>>, FALSE) :
        items \in SeqsUpTo(ArrayItems, MaxStmts)}
    \cup
    {Scenario("spread", "root", "", <<SpreadStatement(x)>>, <<>>, <<>>, <<>>, FALSE) :
        x \in SpreadOperands}

SpreadDoc(sc) ==
    CASE sc.kind = "object" -> Document(<<KeyValueStatement("r", Object(sc.body))>>, <<>>)
      [] sc.kind = "array"  -> Document(<<KeyValueStatement("r", Array(sc.body))>>, <<>>)
      [] sc.kind = "root"   -> Document(sc.body, <<>>)

(***************************************************************************)
(* Inputs with a chain of member accesses:                                 *)
(*     let v = base                                                        *)
(*     r: v.f1. ... .fn          ("member")                                *)
(*     r: v.f1. ... .fn[0]       ("index number")                          *)
(*     r: v.f1. ... .fn["a"]     ("index string")                          *)
(* base is a literal: nested objects that end in a number, null, a string, *)
(* a bool or an array at depth one to three, and scalars and an array      *)
(* themselves.  body is base followed by the fields as identifiers.        *)
(***************************************************************************)
MaxChain == 3

MemberBases ==
    {Object(<<KeyValueStatement("a",
         Object(<<KeyValueStatement("b", Object(<<KeyValueStatement("c", NumberLiteral(7))>>))>>))>>),
     Object(<<KeyValueStatement("a", Object(<<KeyValueStatement("b", NullLiteral)>>))>>),
     Object(<<KeyValueStatement("a", StringLiteral("s"))>>),
     Object(<<KeyValueStatement("a", NumberLiteral(5)), KeyValueStatement("b", BooleanLiteral(TRUE))>>),
     Object(<<KeyValueStatement("a", Array(<<NumberLiteral(1)>>))>>),
     NullLiteral, StringLiteral("s"), NumberLiteral(5), BooleanLiteral(TRUE),
     Array(<<NumberLiteral(1)>>)}

FieldNames == {"a", "b", "c"}

MemberScenarios ==
    {Scenario("member", k, "", <<base>> \o [i \in 1..Len(fs) |-> Identifier(fs[i])],
              <<>>, <<>>, <<>>, FALSE) :
        k \in {"member", "index number", "index string"}, base \in MemberBases,
        fs \in SeqsUpTo(FieldNames, MaxChain) \ {<<>>}}

RECURSIVE Chain(_, _)
\* v.f1. ... .fn
Chain(object, fields) ==
    IF fields = <<>> THEN object
    ELSE Chain(MemberExpression(object, Head(fields).s), Tail(fields))

MemberDoc(sc) ==
    LET chain == Chain(Identifier("v"), Tail(sc.body))
        expr  == CASE sc.kind = "member"       -> chain
                   [] sc.kind = "index number" -> IndexExpression(chain, NumberLiteral(0))
                   [] sc.kind = "index string" -> IndexExpression(chain, StringLiteral("a"))
    IN Document(<<LetStatement("v", Head(sc.body)), KeyValueStatement("r", expr)>>, <<>>)

(***************************************************************************)
(* Inputs with an index access:   let v = base   r: v[index]               *)
(* base is an array of up to MaxElems + 1 numbers or an object literal,    *)
(* one with the keys a and b and one with the keys "1", "true" and "null"; *)
(* index is a number from -1 to MaxElems + 1, a string, a bool, null, an   *)
(* array or an object.  body is <<base, index>>.                           *)
(***************************************************************************)
IndexBases ==
    {Array([i \in 1..k |-> NumberLiteral(10 + i)]) : k \in 0..(MaxElems + 1)}
    \cup
    {Object(<<KeyValueStatement("a", NumberLiteral(1)), KeyValueStatement("b", NumberLiteral(2))>>),
     Object(<<KeyValueStatement("1", NumberLiteral(5)), KeyValueStatement("true", NumberLiteral(6)),
              KeyValueStatement("null", NumberLiteral(7))>>)}

IndexPool ==
    {NumberLiteral(i) : i \in -1..(MaxElems + 1)}
    \cup {StringLiteral(s) : s \in {"a", "b", "x", "1", "true", "null"}}
    \cup {BooleanLiteral(TRUE), BooleanLiteral(FALSE), NullLiteral, Array(<<>>),
          Array(<<NumberLiteral(0)>>), Object(<<>>)}

IndexScenarios ==
    {Scenario("index", "", "", <<base, index>>, <<>>, <<>>, <<>>, FALSE) :
        base \in IndexBases, index \in IndexPool}

IndexDoc(sc) ==
    Document(<<LetStatement("v", sc.body[1]),
               KeyValueStatement("r", IndexExpression(Identifier("v"), sc.body[2]))>>, <<>>)

(***************************************************************************)
(* Inputs with == and !=:                                                  *)
(*     let v = []    let w = v    let o = {}    let q = o                  *)
(*     r: l == r     or     r: l != r                                      *)
(* l and r are scalars of every kind, array and object literals, and the   *)
(* identifiers v, w, o and q: v and w name one array, o and q one object.  *)
(***************************************************************************)
EqualityOperators == {"==", "!="}

EqualityPool ==
    {NumberLiteral(42), NumberLiteral(0), StringLiteral("42"), StringLiteral(""),
     StringLiteral("true"), BooleanLiteral(TRUE), BooleanLiteral(FALSE), NullLiteral,
     Array(<<>>), Object(<<>>),
     Identifier("v"), Identifier("w"), Identifier("o"), Identifier("q")}

EqualityScenarios ==
    {Scenario("eq", op, "", <<l, r>>, <<>>, <<>>, <<>>, FALSE) :
        op \in EqualityOperators, l \in EqualityPool, r \in EqualityPool}

EqualityDoc(sc) ==
    Document(<<LetStatement("v", Array(<<>>)), LetStatement("w", Identifier("v")),
               LetStatement("o", Object(<<>>)), LetStatement("q", Identifier("o")),
               KeyValueStatement("r", BinaryOp(sc.body[1], sc.kind, sc.body[2]))>>, <<>>)

Scenarios == IncludeScenarios \cup ControlScenarios \cup RootScenarios \cup SingleScenarios \cup IsolationScenarios \cup HostScenarios \cup LoopScenarios \cup AssignScenarios \cup NilScenarios \cup OperatorScenarios \cup PipeScenarios \cup SpreadScenarios \cup MemberScenarios \cup IndexScenarios \cup EqualityScenarios

DocOf(sc) ==
    CASE sc.family = "include" -> IncludeDoc(sc)
      [] sc.family = "control" -> ControlDoc(sc)
      [] sc.family = "root" -> RootDoc(sc)
      [] sc.family = "single" -> SingleDoc(sc)
      [] sc.family = "isolate" -> IsolationDoc(sc)
      [] sc.family = "host" -> HostDoc(sc)
      [] sc.family = "loop" -> LoopDoc(sc)
      [] sc.family = "assign" -> AssignDoc(sc)
      [] sc.family = "nil" -> NilDoc(sc)
      [] sc.family = "ops" -> OperatorDoc(sc)
      [] sc.family = "pipe" -> PipeDoc(sc)
      [] sc.family = "spread" -> SpreadDoc(sc)
      [] sc.family = "member" -> MemberDoc(sc)
      [] sc.family = "index" -> IndexDoc(sc)
      [] sc.family = "eq" -> EqualityDoc(sc)

\* the initial scope as the host prepared it (scope 1): runtime.NewScope(nil)
\* and, for the "host" inputs, Values bound to a new object {app: v}
HostStore(sc) ==
    LET root == NewScope(EmptyStore, 0)
    IN IF sc.family = "pipe"
       THEN SetFunction(SetFunction(SetFunction(root.st, root.id, "concat", "concat"),
                                    root.id, "wrap", "wrap"), root.id, "fail", "fail")
       ELSE IF sc.family # "host" THEN root.st
       ELSE LET values == Alloc(root.st, "object")
                s1     == ObjectSet(values.st, values.id, "app", NewString(sc.kind2))
            IN IF sc.kind = "Set"
               THEN Set(s1, root.id, "Values", ObjectValue(values.id))
               ELSE SetGlobal(s1, root.id, "Values", ObjectValue(values.id))

\* a Parser that has not been constructed
NoParser == [lexer |-> NewLexer(<<>>), current |-> NoToken, peek |-> NoToken,
             panicked |-> FALSE, source |-> <<>>]

Init ==
    /\ scenario \in Scenarios
    /\ doc = DocOf(scenario)
    /\ st = HostStore(scenario)
    /\ pc = "define"
    /\ idx = 1
    /\ err = NoErr
    /\ result = NoResult
    /\ parser = NoParser

\* EvalDocument, lines 22-34: register every definition as a template
DefineTemplates ==
    /\ pc = "define"
    /\ LET defs == doc.Definitions
           F[i \in 0..Len(defs)] ==
               IF i = 0 THEN st
               ELSE DefineTemplate(F[i - 1], rootScope, defs[i].Name,
                                   NewTemplate(defs[i].Name, defs[i].Body))
       IN st' = F[Len(defs)]
    /\ pc' = "body"
    /\ UNCHANGED <<scenario, doc, idx, err, result, parser>>

\* EvalDocument, lines 37-41: one statement of the body
EvalBodyStatement ==
    /\ pc = "body"
    /\ idx <= Len(doc.Body)
    /\ LET r == Dispatch("evalStatement", st, Evaluator(rootScope, documentCollector), doc.Body[idx], 0, 0)
       IN /\ st' = r.st
          /\ IF r.err = runtimePanic
             THEN pc' = "panic" /\ err' = err /\ idx' = idx
             ELSE IF r.err # NoErr
             THEN pc' = "done" /\ err' = r.err /\ idx' = idx
             ELSE pc' = pc /\ err' = err /\ idx' = idx + 1
    /\ UNCHANGED <<scenario, doc, result, parser>>

\* EvalDocument, lines 44-47: return the documents
ReturnDocuments ==
    /\ pc = "body"
    /\ idx > Len(doc.Body)
    /\ result' = [ok |-> TRUE, Elements |-> st.documents]
    /\ pc' = "done"
    /\ UNCHANGED <<scenario, doc, st, idx, err, parser>>

Next == DefineTemplates \/ EvalBodyStatement \/ ReturnDocuments

Spec == Init /\ [][Next]_vars

(***************************************************************************)
(* The parser reading a source: New(source, filename) and then Parse, one  *)
(* action for each iteration of Parse's loop.  A run-time panic of the     *)
(* lexer ends the program: pc = "panic".  The sources are every sequence   *)
(* of up to MaxInput bytes of Alphabet and the sources of ParseScenarios.  *)
(***************************************************************************)
Alphabet == {"\"", "\\", "a", "1", " ", "\n", "&", "@"}

Sources == SeqsUpTo(Alphabet, MaxInput)

NoScenario == Scenario("", "", "", <<>>, <<>>, <<>>, <<>>, FALSE)

\* a source given byte by byte
SourceScenarios == {Scenario("source", "", "", source, <<>>, <<>>, <<>>, FALSE) : source \in Sources}

(***************************************************************************)
(* Sources with two binary operators:   a A b B c   for every pair of      *)
(* binary operators A and B, given by their bytes.                         *)
(***************************************************************************)
BinaryOperators ==
    {<<"|">>, <<"|", "|">>, <<"&", "&">>, <<"=", "=">>, <<"!", "=">>, <<"<">>,
     <<"<", "=">>, <<">">>, <<">", "=">>, <<"+">>, <<"-">>, <<"*">>, <<"/">>}

PrecedenceScenarios ==
    {Scenario("prec", Join(A), Join(B),
              <<"a", " ">> \o A \o <<" ", "b", " ">> \o B \o <<" ", "c">>,
              <<>>, <<>>, <<>>, FALSE) :
        A \in BinaryOperators, B \in BinaryOperators}

PrecedenceSource(sc) == sc.body

(***************************************************************************)
(* Sources that Parse accepts and sources on which it fails:               *)
(*   if a do b                                                           *)
(*   if a do b end                                                       *)
(*   if a do b else c                                                    *)
(*   for k, v in a do b                                                  *)
(*   for k, v in a do b end                                              *)
(*   with a as w do b                                                    *)
(*   with a as w do b end                                                *)
(*   r: 1.1.1                                                            *)
(*   r: 11                                                               *)
(*   r: "${+}"                                                           *)
(*   r: "${a"                                                            *)
(*   r: "${a}"                                                           *)
(*   )                                                                   *)
(*   r: 1 1                                                              *)
(*   if a b                                                              *)
(*   define("t") do a                                                    *)
(*   define("t") do a end                                                *)
(***************************************************************************)
FailureScenarios ==
    {
     Scenario("fail", "if without end", "", <<"i", "f", " ", "a", " ", "d", "o", " ", "b">>, <<>>, <<>>, <<>>, FALSE),
     Scenario("fail", "if", "", <<"i", "f", " ", "a", " ", "d", "o", " ", "b", " ", "e", "n", "d">>, <<>>, <<>>, <<>>, FALSE),
     Scenario("fail", "else without end", "", <<"i", "f", " ", "a", " ", "d", "o", " ", "b", " ", "e", "l", "s", "e", " ", "c">>, <<>>, <<>>, <<>>, FALSE),
     Scenario("fail", "for without end", "", <<"f", "o", "r", " ", "k", ",", " ", "v", " ", "i", "n", " ", "a", " ", "d", "o", " ", "b">>, <<>>, <<>>, <<>>, FALSE),
     Scenario("fail", "for", "", <<"f", "o", "r", " ", "k", ",", " ", "v", " ", "i", "n", " ", "a", " ", "d", "o", " ", "b", " ", "e", "n", "d">>, <<>>, <<>>, <<>>, FALSE),
     Scenario("fail", "with without end", "", <<"w", "i", "t", "h", " ", "a", " ", "a", "s", " ", "w", " ", "d", "o", " ", "b">>, <<>>, <<>>, <<>>, FALSE),
     Scenario("fail", "with", "", <<"w", "i", "t", "h", " ", "a", " ", "a", "s", " ", "w", " ", "d", "o", " ", "b", " ", "e", "n", "d">>, <<>>, <<>>, <<>>, FALSE),
     Scenario("fail", "malformed number", "", <<"r", ":", " ", "1", ".", "1", ".", "1">>, <<>>, <<>>, <<>>, FALSE),
     Scenario("fail", "number", "", <<"r", ":", " ", "1", "1">>, <<>>, <<>>, <<>>, FALSE),
     Scenario("fail", "interpolation error", "", <<"r", ":", " ", "\"", "$", "{", "+", "}", "\"">>, <<>>, <<>>, <<>>, FALSE),
     Scenario("fail", "interpolation unclosed", "", <<"r", ":", " ", "\"", "$", "{", "a", "\"">>, <<>>, <<>>, <<>>, FALSE),
     Scenario("fail", "interpolation", "", <<"r", ":", " ", "\"", "$", "{", "a", "}", "\"">>, <<>>, <<>>, <<>>, FALSE),
     Scenario("fail", "unexpected token", "", <<")">>, <<>>, <<>>, <<>>, FALSE),
     Scenario("fail", "two values", "", <<"r", ":", " ", "1", " ", "1">>, <<>>, <<>>, <<>>, FALSE),
     Scenario("fail", "if without do", "", <<"i", "f", " ", "a", " ", "b">>, <<>>, <<>>, <<>>, FALSE),
     Scenario("fail", "define without end", "", <<"d", "e", "f", "i", "n", "e", "(", "\"", "t", "\"", ")", " ", "d", "o", " ", "a">>, <<>>, <<>>, <<>>, FALSE),
     Scenario("fail", "define", "", <<"d", "e", "f", "i", "n", "e", "(", "\"", "t", "\"", ")", " ", "d", "o", " ", "a", " ", "e", "n", "d">>, <<>>, <<>>, <<>>, FALSE)
    }

FailureSource(sc) == sc.body

(***************************************************************************)
(* Sources with a unary and a binary operator:   !a B b   and   -a B b     *)
(* for every binary operator B.                                            *)
(***************************************************************************)
UnaryOperators == {<<"!">>, <<"-">>}

UnaryScenarios ==
    {Scenario("unary", Join(op), Join(B), op \o <<"a", " ">> \o B \o <<" ", "b">>,
              <<>>, <<>>, <<>>, FALSE) :
        op \in UnaryOperators, B \in BinaryOperators}

UnarySource(sc) == sc.body

(***************************************************************************)
(* Sources with a statement followed by a comment or by a newline, at the  *)
(* top level, in the body of an if, in an object and at the end of the     *)
(* input:                                                                  *)
(*   a: 1 # c         if c do         o: {            a: 1 # c             *)
(*   b: 2             a: 1 # c        a: 1 # c                             *)
(*                    end             }                                    *)
(***************************************************************************)
CommentStatements == {"key-value", "member", "let", "spread"}

StatementSource(kind) ==
    CASE kind = "key-value" -> <<"a", ":", " ", "1">>
      [] kind = "member"    -> <<"a", ":", " ", "x", ".", "y">>
      [] kind = "let"       -> <<"l", "e", "t", " ", "x", " ", "=", " ", "1">>
      [] kind = "spread"    -> <<"s", "p", "r", "e", "a", "d", " ", "v">>

Separators == {"comment", "newline"}

SeparatorSource(kind) ==
    IF kind = "comment" THEN <<" ", "#", " ", "c", "\n">> ELSE <<"\n">>

CommentContexts == {"document", "block", "object", "end"}

CommentScenarios ==
    {Scenario("comment", s, sep, <<>>, <<ctx>>, <<>>, <<>>, FALSE) :
        s \in CommentStatements, sep \in Separators, ctx \in CommentContexts}

CommentSource(sc) ==
    LET stmt == StatementSource(sc.kind) \o SeparatorSource(sc.kind2)
    IN CASE sc.xs[1] = "document" -> stmt \o <<"b", ":", " ", "2">>
         [] sc.xs[1] = "block"    -> <<"i", "f", " ", "c", " ", "d", "o", "\n">> \o stmt \o <<"e", "n", "d">>
         [] sc.xs[1] = "object"   -> <<"o", ":", " ", "{", "\n">> \o stmt \o <<"}">>
         [] sc.xs[1] = "end"      -> stmt

(***************************************************************************)
(* Sources with an interpolated string:   r: "..."   whose body is made of *)
(* up to MaxPieces pieces, each the text a, the escaped \${ or the         *)
(* interpolation ${x}, with at least one interpolation.                    *)
(***************************************************************************)
MaxPieces == 3

Pieces == {"text", "escape", "expr"}

PieceSource(piece) ==
    CASE piece = "text"   -> <<"a">>
      [] piece = "escape" -> <<"\\", "$", "{">>
      [] piece = "expr"   -> <<"$", "{", "x", "}">>

InterpolationScenarios ==
    {Scenario("interp", "", "", <<>>, pieces, <<>>, <<>>, FALSE) :
        pieces \in {ps \in SeqsUpTo(Pieces, MaxPieces) : \E i \in 1..Len(ps) : ps[i] = "expr"}}

RECURSIVE PiecesSource(_)
PiecesSource(pieces) ==
    IF pieces = <<>> THEN <<>> ELSE PieceSource(Head(pieces)) \o PiecesSource(Tail(pieces))

InterpolationSource(sc) == <<"r", ":", " ", "\"">> \o PiecesSource(sc.xs) \o <<"\"">>

ParseScenarios == SourceScenarios \cup PrecedenceScenarios \cup FailureScenarios \cup UnaryScenarios \cup CommentScenarios \cup InterpolationScenarios

SourceOf(sc) ==
    CASE sc.family = "source" -> sc.body
      [] sc.family = "prec" -> PrecedenceSource(sc)
      [] sc.family = "fail" -> FailureSource(sc)
      [] sc.family = "unary" -> UnarySource(sc)
      [] sc.family = "comment" -> CommentSource(sc)
      [] sc.family = "interp" -> InterpolationSource(sc)

InitParser ==
    /\ scenario \in ParseScenarios
    /\ parser = [NoParser EXCEPT !.lexer = NewLexer(SourceOf(scenario))]
    /\ pc = "New"
    /\ doc = Document(<<>>, <<>>)
    /\ st = EmptyStore
    /\ idx = 1
    /\ err = NoParseError
    /\ result = NoResult

\* parser.New(source, filename)
CallNew ==
    /\ pc = "New"
    /\ parser' = New(parser.lexer.input)
    /\ pc' = IF parser'.panicked THEN "panic" ELSE "Parse"
    /\ UNCHANGED <<scenario, doc, st, idx, err, result>>

\* Parse: a newline or a comment is skipped
ParseSkip ==
    /\ pc = "Parse"
    /\ currentIs(parser, "TokenNewline") \/ currentIs(parser, "TokenComment")
    /\ parser' = nextToken(parser)
    /\ pc' = IF parser'.panicked THEN "panic" ELSE "Parse"
    /\ UNCHANGED <<scenario, doc, st, idx, err, result>>

\* Parse: what follows parseDefinition and parseStatement in the loop.  After
\* a definition the newlines are skipped; after a statement the parser moves
\* to the next token first, and a nil node is not appended.
Continue(r, definition) ==
    /\ parser' = IF r.err # NoParseError THEN r.p
                 ELSE IF definition THEN skipNewlines(r.p)
                 ELSE skipNewlines(nextToken(r.p))
    /\ IF parser'.panicked
       THEN pc' = "panic" /\ err' = err /\ doc' = doc
       ELSE IF r.err # NoParseError
       THEN pc' = "failed" /\ err' = r.err /\ doc' = doc
       ELSE /\ pc' = "Parse"
            /\ err' = err
            /\ doc' = IF definition THEN [doc EXCEPT !.Definitions = Append(@, r.node)]
                      ELSE IF r.node # NilNode THEN [doc EXCEPT !.Body = Append(@, r.node)]
                      ELSE doc

\* Parse: a define block
ParseDefinition ==
    /\ pc = "Parse"
    /\ currentIs(parser, "TokenDefine")
    /\ Continue(PDispatch("parseDefinition", parser, 0, 0), TRUE)
    /\ UNCHANGED <<scenario, st, idx, result>>

\* Parse: a statement
ParseStatement ==
    /\ pc = "Parse"
    /\ parser.current.Type \notin {"TokenEOF", "TokenNewline", "TokenComment", "TokenDefine"}
    /\ Continue(PDispatch("parseStatement", parser, 0, 0), FALSE)
    /\ UNCHANGED <<scenario, st, idx, result>>

\* Parse: the current token is TokenEOF, Parse returns the Document
ParseReturns ==
    /\ pc = "Parse"
    /\ currentIs(parser, "TokenEOF")
    /\ pc' = "parsed"
    /\ UNCHANGED <<scenario, doc, st, idx, err, result, parser>>

NextParser == CallNew \/ ParseSkip \/ ParseDefinition \/ ParseStatement \/ ParseReturns

SpecParser == InitParser /\ [][NextParser]_vars

(***************************************************************************)
(* Reading results.                                                        *)
(***************************************************************************)
\* the value a literal node denotes
LiteralValue(node) ==
    CASE node.type = "NumberLiteral"  -> NewNumber(node.n)
      [] node.type = "StringLiteral"  -> NewString(node.s)
      [] node.type = "BooleanLiteral" -> NewBool(node.n = 1)
      [] node.type = "NullLiteral"    -> NewNull

LiteralValues(items) == [i \in 1..Len(items) |-> LiteralValue(items[i])]

\* the fields a sequence of key-values with literal values writes, in order
RECURSIVE FieldsWritten(_)
FieldsWritten(items) ==
    IF items = <<>> THEN <<>>
    ELSE MapSet(FieldsWritten(SubSeq(items, 1, Len(items) - 1)),
                items[Len(items)].s, LiteralValue(items[Len(items)].a[1]))

SameFields(m1, m2) == {m1[i] : i \in 1..Len(m1)} = {m2[i] : i \in 1..Len(m2)}

Done == pc = "done"

Succeeded == pc = "done" /\ err = NoErr /\ result.ok

\* field key of the object document number d of the result
DocField(d, key) == ObjectGet(st, result.Elements[d].n, key).val

HasDocField(d, key) ==
    /\ d \in 1..Len(result.Elements)
    /\ result.Elements[d].t = "object"
    /\ ObjectGet(st, result.Elements[d].n, key).ok

(***************************************************************************)
(* C1: an include that appears as a statement evaluates the template body  *)
(* against the caller's collector: in an object literal the key-values of  *)
(* the body become fields of the object, in an array literal the values    *)
(* the body emits become its elements in order, and at document top level  *)
(* they become documents, also when the include sits inside an if / for /  *)
(* with body.                                                              *)
(***************************************************************************)
IncludeEmitted(sc) ==
    CASE sc.kind = "object" ->
            /\ Len(result.Elements) = 1
            /\ HasDocField(1, "r")
            /\ DocField(1, "r").t = "object"
            /\ SameFields(st.heap[DocField(1, "r").n].fields, FieldsWritten(sc.body))
      [] sc.kind = "array" ->
            /\ Len(result.Elements) = 1
            /\ HasDocField(1, "r")
            /\ DocField(1, "r").t = "array"
            /\ st.heap[DocField(1, "r").n].elems = LiteralValues(sc.body)
      [] sc.kind = "root" -> result.Elements = LiteralValues(sc.body)

C1_IncludeStatementUsesCallersCollector ==
    (Done /\ scenario.family = "include") => (Succeeded /\ IncludeEmitted(scenario))

(***************************************************************************)
(* C2: if, for and with produce no value of their own; inside an array     *)
(* literal they append what their bodies emit to the enclosing array in    *)
(* evaluation order.  [for i, item in xs do f(item) end] yields an array   *)
(* of the length of xs whose k-th element is f(xs[k]) with i bound to the  *)
(* number k, and the elements written before and after the statement keep  *)
(* their relative order.                                                   *)
(***************************************************************************)
\* f(xs[k]) with i = k, k counted from 0
Applied(f, k, x) ==
    CASE f = "double" -> x * 2
      [] f = "sum"    -> x + k
      [] f = "index"  -> k

ControlEmitted(sc) ==
    CASE sc.kind = "for"  -> [k \in 1..Len(sc.xs) |-> Applied(sc.kind2, k - 1, sc.xs[k])]
      [] sc.kind = "if"   -> IF sc.flag THEN <<5, 6>> ELSE <<7>>
      [] sc.kind = "with" -> <<4, 8>>

NumberValues(ns) == [i \in 1..Len(ns) |-> NewNumber(ns[i])]

C2_ControlFlowEmitsIntoArray ==
    (Done /\ scenario.family = "control") =>
        /\ Succeeded
        /\ Len(result.Elements) = 1
        /\ HasDocField(1, "results")
        /\ DocField(1, "results").t = "array"
        /\ st.heap[DocField(1, "results").n].elems =
               NumberValues(scenario.pre \o ControlEmitted(scenario) \o scenario.post)

C2_Witness ==
    /\ Succeeded
    /\ scenario.family = "control"
    /\ scenario.kind = "for"
    /\ Len(scenario.xs) = MaxElems
    /\ scenario.pre # <<>>
    /\ scenario.post # <<>>
    /\ Len(st.heap[DocField(1, "results").n].elems) = MaxElems + 2

(***************************************************************************)
(* C3: at document top level each bare expression statement (other than    *)
(* an include) appends exactly one new document; a key-value sets its      *)
(* field on the last document if that document is an object, otherwise it  *)
(* appends exactly one new object document and sets the field on it;       *)
(* earlier documents are never removed, replaced or reordered, and the     *)
(* returned array lists the documents in source order.                     *)
(***************************************************************************)
RootStatementEffect ==
    LET stmt  == doc.Body[idx]
        docs  == st.documents
        docs2 == st'.documents
        last  == docs[Len(docs)]
        last2 == docs2[Len(docs2)]
        written(obj) == /\ ObjectGet(st', obj, stmt.s).ok
                        /\ ObjectGet(st', obj, stmt.s).val = LiteralValue(stmt.a[1])
    IN /\ Len(docs2) >= Len(docs)
       /\ SubSeq(docs2, 1, Len(docs)) = docs
       /\ (err' = NoErr /\ IsExpression(stmt) /\ stmt.type # "IncludeExpression")
             => Len(docs2) = Len(docs) + 1
       /\ (err' = NoErr /\ stmt.type = "KeyValueStatement")
             => IF Len(docs) > 0 /\ last.t = "object"
                THEN docs2 = docs /\ written(last.n)
                ELSE /\ Len(docs2) = Len(docs) + 1
                     /\ last2.t = "object"
                     /\ last2.n \notin 1..Len(st.heap)
                     /\ written(last2.n)

C3_RootDocumentsInSourceOrder ==
    [][ /\ (pc = "body" /\ idx <= Len(doc.Body) /\ scenario.family = "root")
            => RootStatementEffect
        /\ (pc = "body" /\ idx > Len(doc.Body) /\ scenario.family = "root")
            => (result'.ok /\ result'.Elements = st.documents) ]_vars

C3_Witness ==
    /\ Succeeded
    /\ scenario.family = "root"
    /\ scenario.body = <<NumberLiteral(1), KeyValueStatement("k", NumberLiteral(2)),
                         KeyValueStatement("a", NumberLiteral(5))>>
    /\ Len(result.Elements) = 2
    /\ result.Elements[1] = NewNumber(1)
    /\ DocField(2, "k") = NewNumber(2)
    /\ DocField(2, "a") = NewNumber(5)

(***************************************************************************)
(* C4: when an if or a with is the right-hand side of a key-value, or an   *)
(* include is used as an expression, evaluation succeeds exactly when the  *)
(* body emits exactly one value, and that value is the result; emitting    *)
(* no value is the error "expected value" and a second emission is an      *)
(* error.                                                                  *)
(***************************************************************************)
\* the values an item of SinglePool emits, read off its syntax
Emits(item) ==
    CASE item.type \in {"NumberLiteral", "NullLiteral"} -> <<LiteralValue(item)>>
      [] item.type = "LetStatement" -> <<>>
      [] item.type = "IfStatement" ->
            IF item.a[1].n = 1 THEN LiteralValues(item.b) ELSE LiteralValues(item.c)
      [] item.type = "ForStatement" -> LiteralValues(item.a[1].a)

RECURSIVE Emitted(_)
Emitted(items) ==
    IF items = <<>> THEN <<>> ELSE Emits(Head(items)) \o Emitted(Tail(items))

C4_SingleValueExactlyOne ==
    (Done /\ scenario.family = "single") =>
        LET vals == Emitted(scenario.body)
        IN /\ Succeeded <=> Len(vals) = 1
           /\ Succeeded =>
                /\ Len(result.Elements) = 1
                /\ HasDocField(1, "r")
                /\ DocField(1, "r") = vals[1]
           /\ Len(vals) = 0 => err.msg = "expected value"
           /\ Len(vals) > 1 => err.msg = "unexpected value, expected only a single value"

C4_Witness ==
    /\ Succeeded
    /\ scenario.family = "single"
    /\ scenario.kind = "include"
    /\ scenario.body = <<LetStatement("y", NumberLiteral(1)),
                         IfStatement(BooleanLiteral(TRUE), <<NumberLiteral(8)>>, <<>>)>>
    /\ DocField(1, "r") = NewNumber(8)

(***************************************************************************)
(* C5: include isolates local variables in both directions.  Inside the    *)
(* body of an included template a name bound only as a local variable of   *)
(* the caller's scope chain (by let, assignment, for or with) and not      *)
(* passed in the context object is undefined; after the include returns,   *)
(* no let or assignment of the template body is visible in the caller:     *)
(* a name resolves in the caller to what it resolved to before.            *)
(***************************************************************************)
C5_IncludeIsolatesLocals ==
    (Done /\ scenario.family = "isolate") =>
        IF scenario.kind = "in"
        THEN \* the caller read x, the template could not
             /\ st.documents = <<NewNumber(scenario.xs[1])>>
             /\ err # NoErr
             /\ err.msg = "undefined variable"
             /\ err.wrap = 1
        ELSE IF scenario.flag
        THEN /\ Succeeded
             /\ HasDocField(1, "r")
             /\ DocField(1, "r") = NewNumber(scenario.xs[1])
        ELSE /\ err # NoErr
             /\ err.msg = "undefined variable"
             /\ err.wrap = 0

C5_Witness ==
    /\ Done
    /\ scenario.family = "isolate"
    /\ scenario.kind = "in"
    /\ scenario.kind2 = "for"
    /\ ~scenario.flag
    /\ st.documents = <<NewNumber(scenario.xs[1])>>
    /\ err.msg = "undefined variable"
    /\ err.wrap = 1

(***************************************************************************)
(* C6: a host value bound in the initial scope is readable inside an       *)
(* included template that receives no context: with Values bound in the    *)
(* initial scope by Scope.Set to an object with app = "foo", evaluating    *)
(* labels: { include("makeLabel") } with the template body                 *)
(* app: Values.app, always: "always" succeeds and yields a document with   *)
(* labels.app = "foo" and labels.always = "always".                        *)
(***************************************************************************)
LabelsOf(key) == ObjectGet(st, DocField(1, "labels").n, key)

C6_HostValueReadableInTemplate ==
    (Done /\ scenario.family = "host" /\ scenario.kind = "Set") =>
        /\ Succeeded
        /\ HasDocField(1, "labels")
        /\ DocField(1, "labels").t = "object"
        /\ LabelsOf("app").ok
        /\ LabelsOf("app").val = NewString(scenario.kind2)
        /\ LabelsOf("always").ok
        /\ LabelsOf("always").val = NewString("always")

\* what the code does with a value bound by Scope.Set, and with one bound
\* by Scope.SetGlobal
C6_HostValueByBinding ==
    (Done /\ scenario.family = "host") =>
        IF scenario.kind = "Set"
        THEN err # NoErr /\ err.msg = "undefined variable" /\ err.wrap = 1
        ELSE /\ Succeeded
             /\ LabelsOf("app").val = NewString(scenario.kind2)
             /\ LabelsOf("always").val = NewString("always")

(***************************************************************************)
(* C7: break ends the enclosing for loop.  When evaluation reaches a break *)
(* in a for body, as a direct body item or nested inside an if or with in  *)
(* that body, no further body item of this iteration and no further        *)
(* iteration is evaluated, the values emitted before the break stay in the *)
(* enclosing collector, and evaluation continues after the loop without an *)
(* error.                                                                  *)
(***************************************************************************)
\* whether the break or continue of an input of kind k is reached for item x
Reached(k, x) == IF k \in {"ifBreak", "ifContinue"} THEN x # 1 ELSE TRUE

\* the numbers the loop of an input of kind k is to emit for the items xs
RECURSIVE LoopEmits(_, _)
LoopEmits(k, xs) ==
    IF xs = <<>> THEN <<>>
    ELSE LET x == Head(xs)
         IN IF ~Reached(k, x) THEN <<x, x + 10>> \o LoopEmits(k, Tail(xs))
            ELSE IF k \in BreakKinds THEN <<x>>
            ELSE <<x>> \o LoopEmits(k, Tail(xs))

LoopResult(sc) ==
    /\ Succeeded
    /\ Len(result.Elements) = 1
    /\ HasDocField(1, "results")
    /\ DocField(1, "results").t = "array"
    /\ st.heap[DocField(1, "results").n].elems =
           NumberValues(sc.pre \o LoopEmits(sc.kind, sc.xs) \o sc.post)

C7_BreakEndsLoop ==
    (Done /\ scenario.family = "loop" /\ scenario.kind \in BreakKinds)
        => LoopResult(scenario)

\* a break that is a direct item of the for body does end the loop
C7_DirectBreakEndsLoop ==
    (Done /\ scenario.family = "loop" /\ scenario.kind = "break")
        => LoopResult(scenario)

(***************************************************************************)
(* C8: continue skips the rest of the current iteration.  When evaluation  *)
(* reaches a continue in a for body, the remaining body items of that      *)
(* iteration are not evaluated, the loop proceeds with the next element of *)
(* the iterable, and no error is raised.                                   *)
(***************************************************************************)
C8_ContinueSkipsIteration ==
    (Done /\ scenario.family = "loop" /\ scenario.kind \in ContinueKinds)
        => LoopResult(scenario)

\* what the code does when a break nested in an if or with, or any
\* continue, is reached: the statement is unsupported
ReachedContinueOrNestedBreakIsUnsupported ==
    (Done /\ scenario.family = "loop" /\ scenario.kind \notin {"break"}
          /\ \E i \in 1..Len(scenario.xs) : Reached(scenario.kind, scenario.xs[i]))
        => (err # NoErr /\ err.msg = "unsupported statement")

C10_ParserNeverPanics == ~parser.panicked /\ pc # "panic"

\* the lexer panics exactly when a string token opens with a double quote
\* that is the last byte of the source
C10_PanicOnlyAtTrailingQuote ==
    parser.panicked =>
        LET input == parser.lexer.input
        IN /\ input # <<>>
           /\ input[Len(input)] = "\""
           /\ parser.lexer.pos = Len(input)

(***************************************************************************)
(* C11: evaluation is total: EvalDocument never aborts the program,        *)
(* whatever document Parse returned; every failure comes back as an error. *)
(* Violated: a key-value, let or assignment with no value before the end   *)
(* of the input or of a block, and an object or array literal holding a    *)
(* stray end, make the evaluator call GetPos on a nil node.                *)
(***************************************************************************)
C11_EvalDocumentNeverAborts == pc # "panic"

\* the aborts are exactly the inputs with a nil node in the tree
C11_AbortsOnlyOnNilNode ==
    (pc = "panic") => (scenario.family = "nil" /\ scenario.flag)

C11_NilNodeAborts ==
    (scenario.family = "nil" /\ scenario.flag /\ pc \in {"done", "panic"}) => pc = "panic"

(***************************************************************************)
(* C12: every error EvalDocument returns is an EvalError (it carries the   *)
(* filename, line and column of the offending node), division by zero, a   *)
(* type mismatch in arithmetic or comparison and a second emission into a  *)
(* single-value collector included.                                        *)
(* Violated: the operator functions and setVal return plain errors, and    *)
(* neither evalBinaryOp nor any caller up to EvalDocument wraps them.      *)
(***************************************************************************)
C12_EveryErrorIsEvalError == (Done /\ err # NoErr) => err.typed

\* the plain errors are those of the operator functions and of setVal
C12_PlainErrors ==
    (Done /\ err # NoErr /\ ~err.typed)
        => err.msg \in {"cannot add", "cannot subtract", "cannot multiply", "cannot divide",
                        "division by zero", "cannot compare", "cannot convert to string",
                        "unexpected value, expected only a single value"}

C12_DivisionByZeroIsPlain ==
    (Done /\ scenario.family = "ops" /\ scenario.kind = "/"
          /\ scenario.body = <<NumberLiteral(1), NumberLiteral(0)>>)
        => (err = Errorf("division by zero"))

(***************************************************************************)
(* C14: && and || always evaluate both operands, left then right, and      *)
(* return a bool computed from the truthiness of both.  In  r: l && e  and *)
(* r: l || e  the error of l is returned if l fails, otherwise the error   *)
(* of e if e fails, whatever the truthiness of l (false && e and true || e *)
(* included); otherwise r is the conjunction or disjunction of the         *)
(* operands' truthiness.                                                   *)
(***************************************************************************)
\* the error an operand of OperandPool evaluates to
OperandError(node) ==
    CASE node.type = "Identifier" -> errorf("undefined variable")
      [] node.type = "BinaryOp"   -> Errorf("division by zero")
      [] OTHER                    -> NoErr

\* the truthiness of a literal operand of OperandPool
OperandTruthy(node) ==
    CASE node.type = "NumberLiteral"  -> node.n # 0
      [] node.type = "StringLiteral"  -> node.s # ""
      [] node.type = "BooleanLiteral" -> node = BooleanLiteral(TRUE)
      [] OTHER                        -> FALSE

C14_LogicalOperatorsEvaluateBothOperands ==
    (Done /\ scenario.family = "ops" /\ scenario.kind \in {"&&", "||"})
        => LET l == scenario.body[1]
               r == scenario.body[2]
           IN IF OperandError(l) # NoErr THEN err = OperandError(l)
              ELSE IF OperandError(r) # NoErr THEN err = OperandError(r)
              ELSE /\ Succeeded
                   /\ HasDocField(1, "r")
                   /\ DocField(1, "r") =
                        NewBool(IF scenario.kind = "&&"
                                THEN OperandTruthy(l) /\ OperandTruthy(r)
                                ELSE OperandTruthy(l) \/ OperandTruthy(r))

\* false && u has been evaluated and returned the error of u
C14_Witness ==
    /\ Done
    /\ scenario.family = "ops"
    /\ scenario.kind = "&&"
    /\ scenario.body = <<BooleanLiteral(FALSE), Identifier("u")>>
    /\ err = errorf("undefined variable")

(***************************************************************************)
(* C15: binary operators are parsed by precedence, lowest to highest:      *)
(*   |,  ||,  &&,  == !=,  < <= > >=,  + -,  * /                           *)
(* and every level is left-associative:  a A b B c  parses as (a A b) B c  *)
(* when the level of B is at most that of A and as a A (b B c) when it is  *)
(* higher.                                                                 *)
(***************************************************************************)
\* the level of an operator in the list above
Level(operator) ==
    CASE operator = "|"                    -> 1
      [] operator = "||"                   -> 2
      [] operator = "&&"                   -> 3
      [] operator \in {"==", "!="}         -> 4
      [] operator \in {"<", "<=", ">", ">="} -> 5
      [] operator \in {"+", "-"}           -> 6
      [] operator \in {"*", "/"}           -> 7

Grouped(A, B) ==
    IF Level(B) <= Level(A)
    THEN BinaryOp(BinaryOp(Identifier("a"), A, Identifier("b")), B, Identifier("c"))
    ELSE BinaryOp(Identifier("a"), A, BinaryOp(Identifier("b"), B, Identifier("c")))

C15_BinaryOperatorPrecedence ==
    scenario.family = "prec"
        => /\ pc \notin {"failed", "panic"}
           /\ pc = "parsed"
                => doc.Body = <<Grouped(scenario.kind, scenario.kind2)>>

\* a + b * c and a * b + c have been parsed
C15_Witness ==
    /\ pc = "parsed"
    /\ scenario.family = "prec"
    /\ scenario.kind = "*"
    /\ scenario.kind2 = "+"
    /\ doc.Body = <<BinaryOp(BinaryOp(Identifier("a"), "*", Identifier("b")), "+",
                             Identifier("c"))>>

(***************************************************************************)
(* C13: every failure of Parse is returned as a ParseError carrying        *)
(* line >= 1, column >= 1 and the full source text; a block that is        *)
(* missing its end, a malformed numeric literal and an error inside a      *)
(* ${...} interpolation included.                                          *)
(* Violated: those three failures are made by fmt.Errorf, not by p.error.  *)
(***************************************************************************)
C13_EveryFailureIsParseError ==
    pc = "failed"
        => /\ err.typed
           /\ err.Line >= 1
           /\ err.Col >= 1
           /\ err.Source = parser.source

\* the errors made by p.error carry the position and the source
C13_ParseErrorCarriesPosition ==
    (pc = "failed" /\ err.typed)
        => (err.Line >= 1 /\ err.Col >= 1 /\ err.Source = parser.source)

\* the plain errors are the three of the statement above
C13_PlainErrors ==
    (pc = "failed" /\ ~err.typed)
        => /\ scenario.family = "fail"
           /\ \/ /\ err.msg = "expected 'end'"
                 /\ scenario.kind \in {"if without end", "else without end",
                                       "for without end", "with without end"}
              \/ err.msg = "invalid number" /\ scenario.kind = "malformed number"
              \/ /\ err.msg = "failed to parse interpolation expression"
                 /\ scenario.kind = "interpolation error"

C13_GoodSourcesParse ==
    (scenario.family = "fail"
        /\ scenario.kind \in {"if", "for", "with", "number", "interpolation", "define"})
        => pc \notin {"failed", "panic"}

(***************************************************************************)
(* C16: unary operators bind tighter than every binary operator: for op    *)
(* in {!, -} and every binary operator B,  op a B b  parses as             *)
(* Binary(B, Unary(op, a), b); unary minus is accepted before an           *)
(* identifier.                                                             *)
(* Violated: the operand of ! is a whole expression, so !a B b parses as   *)
(* Unary(!, Binary(B, a, b)); and no parse function accepts a minus sign   *)
(* at the start of an operand, so -a B b is a parse error.                 *)
(***************************************************************************)
C16_UnaryBindsTighterThanBinary ==
    scenario.family = "unary"
        => /\ pc \notin {"failed", "panic"}
           /\ pc = "parsed"
                => doc.Body = <<BinaryOp(UnaryOp(scenario.kind, Identifier("a")),
                                         scenario.kind2, Identifier("b"))>>

\* what the parser does with !a B b
C16_NotTakesTheWholeExpression ==
    (scenario.family = "unary" /\ scenario.kind = "!")
        => /\ pc \notin {"failed", "panic"}
           /\ pc = "parsed"
                => doc.Body = <<UnaryOp("!", BinaryOp(Identifier("a"), scenario.kind2,
                                                      Identifier("b")))>>

\* what the parser does with -a B b
C16_MinusBeforeIdentifierIsRejected ==
    (scenario.family = "unary" /\ scenario.kind = "-")
        => /\ pc # "parsed"
           /\ pc = "failed" => (err.typed /\ err.msg = "unexpected token")

(***************************************************************************)
(* C17, as stated: a pipe is a call with the piped value as last argument: *)
(* x | f gives the same value or error as f(x), x | f(a, b) the same as    *)
(* f(a, b, x), x | f | g the same as g(f(x)), and a right-hand side that   *)
(* is neither an identifier nor a call of an identifier is an eval error.  *)
(* The outcome of a run is compared with the outcome of the call, computed *)
(* from the syntax: the first error among a, b, x in this order, and       *)
(* otherwise what the function returns.                                    *)
(* Violated: the pipe evaluates x before the arguments, so when x and an   *)
(* argument both fail the pipe returns the error of x and the call that of *)
(* the argument.                                                           *)
(***************************************************************************)
\* the string an operand of the pools evaluates to
OperandString(node) == node.s

RECURSIVE FirstError(_)
\* the error of the first failing operand, NoErr if none fails
FirstError(operands) ==
    IF operands = <<>> THEN NoErr
    ELSE IF OperandError(Head(operands)) # NoErr THEN OperandError(Head(operands))
    ELSE FirstError(Tail(operands))

RECURSIVE Concatenation(_)
Concatenation(operands) ==
    IF operands = <<>> THEN "" ELSE OperandString(Head(operands)) \o Concatenation(Tail(operands))

\* what the registered function f returns for string operands: [err, s]
Returned(f, operands) ==
    CASE f = "concat" -> [err |-> NoErr, s |-> Concatenation(operands)]
      [] f = "wrap"   -> [err |-> NoErr, s |-> "[" \o OperandString(operands[1]) \o "]"]
      [] f = "fail"   -> [err |-> errorf("fail"), s |-> ""]
      [] f = "g"      -> [err |-> errorf("undefined function"), s |-> ""]

\* the outcome of f(operands), the operands evaluated in the order given
CallOutcome(f, operands, order) ==
    IF FirstError(order) # NoErr THEN [err |-> FirstError(order), s |-> ""]
    ELSE Returned(f, operands)

\* the outcome of wrap(f(x))
NestedOutcome(f, x) ==
    LET inner == CallOutcome(f, <<x>>, <<x>>)
    IN IF inner.err # NoErr THEN inner
       ELSE [err |-> NoErr, s |-> "[" \o inner.s \o "]"]

\* the outcome of the run: the error, or the string in r
Outcome ==
    IF err # NoErr THEN [err |-> err, s |-> ""]
    ELSE [err |-> NoErr, s |-> DocField(1, "r").s]

SettledPipe == Done /\ scenario.family = "pipe" /\ (err = NoErr => HasDocField(1, "r"))

InvalidPipeIsError ==
    (Done /\ scenario.family = "pipe" /\ scenario.kind = "invalid")
        => IF OperandError(scenario.body[1]) # NoErr THEN err = OperandError(scenario.body[1])
           ELSE err \in {errorf("invalid pipe right side"),
                         errorf("pipe right side must be a function name")}

C17_PipeEqualsCall ==
    /\ (Done /\ scenario.family = "pipe") => SettledPipe
    /\ InvalidPipeIsError
    /\ (SettledPipe /\ scenario.kind # "invalid")
        => LET x    == scenario.body[1]
               args == Tail(scenario.body)
               f    == scenario.kind2
           IN Outcome = IF scenario.kind \in {"chain", "nested"} THEN NestedOutcome(f, x)
                        ELSE CallOutcome(f, Append(args, x), Append(args, x))

(***************************************************************************)
(* C17, amended: a pipe evaluates the piped value, then the arguments, and *)
(* calls the function with the piped value as last argument.  x | f(a, b)  *)
(* gives the value of f(a, b, x), and its error is the first among x, a,   *)
(* b, the call; x | f gives the same as f(x) and x | f | g the same as     *)
(* g(f(x)); an invalid right-hand side is an eval error.                   *)
(***************************************************************************)
C17_PipeEvaluatesValueFirst ==
    /\ (Done /\ scenario.family = "pipe") => SettledPipe
    /\ InvalidPipeIsError
    /\ (SettledPipe /\ scenario.kind # "invalid")
        => LET x    == scenario.body[1]
               args == Tail(scenario.body)
               f    == scenario.kind2
           IN Outcome = CASE scenario.kind \in {"chain", "nested"} -> NestedOutcome(f, x)
                          [] scenario.kind \in {"pipe", "bare"} ->
                                CallOutcome(f, Append(args, x), <<x>> \o args)
                          [] OTHER -> CallOutcome(f, Append(args, x), Append(args, x))

\* "x" | concat("a", "b") has returned "abx"
C17_Witness ==
    /\ Succeeded
    /\ scenario.family = "pipe"
    /\ scenario.kind = "pipe"
    /\ scenario.kind2 = "concat"
    /\ scenario.body = <<StringLiteral("x"), StringLiteral("a"), StringLiteral("b")>>
    /\ DocField(1, "r") = NewString("abx")

(***************************************************************************)
(* C18: spread splices only into a collector of the same kind, and later   *)
(* writes win.  In an object literal made of key-values and spreads of     *)
(* objects, every key ends with the value of the last statement in source  *)
(* order that sets it; in an array literal a spread appends the elements   *)
(* of its operand in order; an array spread into an object, an object into *)
(* an array, a scalar into either, and any spread at top level are errors. *)
(***************************************************************************)
\* the kind of the value a spread operand evaluates to
OperandKind(node) ==
    CASE node.type = "Object" -> "object"
      [] node.type = "Array"  -> "array"
      [] OTHER                -> "scalar"

IsSpread(item) == item.type = "SpreadStatement"

\* some item spreads an operand that is not of the collector's kind
Mismatch(items, kind) ==
    \E i \in 1..Len(items) : IsSpread(items[i]) /\ OperandKind(items[i].a[1]) # kind

RECURSIVE Spliced(_)
\* the items with every spread replaced by the items of its operand
Spliced(items) ==
    IF items = <<>> THEN <<>>
    ELSE (IF IsSpread(Head(items)) THEN Head(items).a[1].a ELSE <<Head(items)>>)
         \o Spliced(Tail(items))

SpreadRun(kind) == Done /\ scenario.family = "spread" /\ scenario.kind = kind

C18_SpreadSplicesSameKind ==
    /\ SpreadRun("object") =>
        IF Mismatch(scenario.body, "object")
        THEN err = errorf("cannot spread into object")
        ELSE /\ err = NoErr
             /\ HasDocField(1, "r")
             /\ DocField(1, "r").t = "object"
             /\ SameFields(st.heap[DocField(1, "r").n].fields,
                           FieldsWritten(Spliced(scenario.body)))
    /\ SpreadRun("array") =>
        IF Mismatch(scenario.body, "array")
        THEN err = errorf("cannot spread into array")
        ELSE /\ err = NoErr
             /\ HasDocField(1, "r")
             /\ DocField(1, "r").t = "array"
             /\ st.heap[DocField(1, "r").n].elems = LiteralValues(Spliced(scenario.body))
    /\ SpreadRun("root") => err = errorf("cannot spread into this context")

\* r: { a: 1, spread {a: 5, b: 6}, a: 2 } has given a = 2 and b = 6
C18_Witness ==
    /\ Succeeded
    /\ scenario.family = "spread"
    /\ scenario.body =
         <<KeyValueStatement("a", NumberLiteral(1)),
           SpreadStatement(Object(<<KeyValueStatement("a", NumberLiteral(5)),
                                    KeyValueStatement("b", NumberLiteral(6))>>)),
           KeyValueStatement("a", NumberLiteral(2))>>
    /\ ObjectGet(st, DocField(1, "r").n, "a").val = NewNumber(2)
    /\ ObjectGet(st, DocField(1, "r").n, "b").val = NewNumber(6)

(***************************************************************************)
(* C19: member access propagates null and tolerates absent keys.  For a    *)
(* chain v.f1. ... .fn: when a prefix evaluates to null, or to an object   *)
(* without the next field, the chain evaluates to null without an error;   *)
(* member access on a string, number, bool or array is an error; and x[i]  *)
(* with x null is an error.                                                *)
(* The outcome of the chain is read off the literal bound to v.            *)
(***************************************************************************)
\* the value of field name in an object literal, NullLiteral when absent
FieldOf(object, name) ==
    IF \E i \in 1..Len(object.a) : object.a[i].s = name
    THEN (CHOOSE item \in {object.a[i] : i \in 1..Len(object.a)} : item.s = name).a[1]
    ELSE NullLiteral

RECURSIVE Resolve(_, _)
\* [failed, node]: the literal the chain ends at, or failed on a non-object
Resolve(literal, fields) ==
    IF fields = <<>> THEN [failed |-> FALSE, node |-> literal]
    ELSE IF literal = NullLiteral THEN [failed |-> FALSE, node |-> NullLiteral]
    ELSE IF literal.type # "Object" THEN [failed |-> TRUE, node |-> literal]
    ELSE Resolve(FieldOf(literal, Head(fields).s), Tail(fields))

MemberRun == Done /\ scenario.family = "member"

Resolved == Resolve(Head(scenario.body), Tail(scenario.body))

C19_MemberAccessPropagatesNull ==
    MemberRun =>
      IF Resolved.failed THEN err = errorf("cannot access member")
      ELSE IF scenario.kind = "member"
      THEN /\ err = NoErr
           /\ HasDocField(1, "r")
           /\ IF Resolved.node.type \in {"Object", "Array"}
              THEN DocField(1, "r").t = OperandKind(Resolved.node)
              ELSE DocField(1, "r") = LiteralValue(Resolved.node)
      ELSE Resolved.node = NullLiteral => err = errorf("cannot index")

\* v = {a: {b: null}}:  r: v.a.b.c  has given null, and so has  v.c.a
C19_Witness ==
    /\ Succeeded
    /\ scenario.family = "member"
    /\ scenario.kind = "member"
    /\ Head(scenario.body) =
         Object(<<KeyValueStatement("a", Object(<<KeyValueStatement("b", NullLiteral)>>))>>)
    /\ Tail(scenario.body) = <<Identifier("a"), Identifier("b"), Identifier("c")>>
    /\ DocField(1, "r") = NewNull

(***************************************************************************)
(* C20, as stated: index access is strict.  Indexing an array needs an     *)
(* index of kind number and is the error "array index out of bounds" for   *)
(* every index outside 0..len-1; indexing an object needs an index of kind *)
(* string, an index of any other kind is an error, and so is an absent     *)
(* key.                                                                    *)
(* Violated: evalIndexExpression converts the index of an object with      *)
(* runtime.ToString, so a number, a bool and null are used as the keys     *)
(* "1", "true" and "null", and the access succeeds when the object has     *)
(* that key.                                                               *)
(***************************************************************************)
IndexRun(kind) == Done /\ scenario.family = "index" /\ scenario.body[1].type = kind

IndexNode == scenario.body[2]

\* the run has returned r = the literal node
Indexed(node) == err = NoErr /\ HasDocField(1, "r") /\ DocField(1, "r") = LiteralValue(node)

ArrayIndexIsStrict ==
    IndexRun("Array") =>
        LET elements == scenario.body[1].a
        IN IF IndexNode.type # "NumberLiteral"
           THEN err = errorf("array index must be a number")
           ELSE IF IndexNode.n \notin 0..(Len(elements) - 1)
           THEN err = errorf("array index out of bounds")
           ELSE Indexed(elements[IndexNode.n + 1])

StringIndexIsStrict ==
    (IndexRun("Object") /\ IndexNode.type = "StringLiteral") =>
        IF FieldOf(scenario.body[1], IndexNode.s) = NullLiteral
        THEN err = errorf("undefined field")
        ELSE Indexed(FieldOf(scenario.body[1], IndexNode.s))

C20_IndexAccessIsStrict ==
    /\ ArrayIndexIsStrict
    /\ StringIndexIsStrict
    /\ (IndexRun("Object") /\ IndexNode.type # "StringLiteral") => err # NoErr

\* what the code does: the array part and the string part hold; an array or
\* object as index of an object is an error; a number, bool or null index is
\* looked up by its string form
C20_ObjectIndexIsConverted ==
    /\ ArrayIndexIsStrict
    /\ StringIndexIsStrict
    /\ (IndexRun("Object") /\ IndexNode.type \in {"Array", "Object"})
          => err = errorf("object index must be a string")
    /\ (IndexRun("Object")
          /\ IndexNode.type \in {"NumberLiteral", "BooleanLiteral", "NullLiteral"})
          => LET key == runtimeToString(LiteralValue(IndexNode)).s
             IN IF FieldOf(scenario.body[1], key) = NullLiteral
                THEN err = errorf("undefined field")
                ELSE Indexed(FieldOf(scenario.body[1], key))

(***************************************************************************)
(* C21, as stated: arithmetic is numeric-only.  -, * and /, and + when     *)
(* neither operand is a string, succeed only when both operands are of     *)
(* kind number and are an error for an operand of any other kind; + gives  *)
(* the concatenation of the string forms when either operand is a string.  *)
(* Violated: the operators convert their operands with runtime.ToNumber,   *)
(* which turns true into 1, false and null into 0 and a numeric string     *)
(* into its number, so  true - 1,  null * 1  and  "1" - 1  succeed; and    *)
(* "a" + []  is an error, an array having no string form.                  *)
(***************************************************************************)
\* the kind of the value a literal operand of OperandPool evaluates to
KindOf(node) ==
    CASE node.type = "NumberLiteral"  -> "number"
      [] node.type = "StringLiteral"  -> "string"
      [] node.type = "BooleanLiteral" -> "bool"
      [] node.type = "NullLiteral"    -> "null"
      [] node.type = "Array"          -> "array"
      [] node.type = "Object"         -> "object"
      [] OTHER                        -> "none"

\* a run of  r: l op r  with an arithmetic operator and two literal operands
ArithmeticRun ==
    /\ Done
    /\ scenario.family = "ops"
    /\ scenario.kind \in {"+", "-", "*", "/"}
    /\ KindOf(scenario.body[1]) # "none"
    /\ KindOf(scenario.body[2]) # "none"

Concatenates ==
    scenario.kind = "+" /\ "string" \in {KindOf(scenario.body[1]), KindOf(scenario.body[2])}

C21_ArithmeticIsNumericOnly ==
    ArithmeticRun =>
        IF Concatenates
        THEN /\ err = NoErr
             /\ HasDocField(1, "r")
             /\ DocField(1, "r").t = "string"
        ELSE err = NoErr => /\ KindOf(scenario.body[1]) = "number"
                            /\ KindOf(scenario.body[2]) = "number"

\* what the code does: without a string operand of +, the operation succeeds
\* exactly when both operands are a number, a bool, null or a numeric string
\* and the divisor is not zero, on the numbers ToNumber gives; with one, it
\* succeeds exactly when neither operand is an array or an object
NumberOf(node) ==
    CASE node.type = "NumberLiteral"  -> [ok |-> TRUE, n |-> node.n]
      [] node.type = "StringLiteral"  -> [ok |-> node.s = "1", n |-> 1]
      [] node.type = "BooleanLiteral" -> [ok |-> TRUE, n |-> node.n]
      [] node.type = "NullLiteral"    -> [ok |-> TRUE, n |-> 0]
      [] OTHER                        -> [ok |-> FALSE, n |-> 0]

Calculated(op, l, r) ==
    CASE op = "+" -> l + r
      [] op = "-" -> l - r
      [] op = "*" -> l * r
      [] op = "/" -> IF r = 0 THEN 0 ELSE l \div r

C21_ArithmeticConvertsOperands ==
    ArithmeticRun =>
        LET l == scenario.body[1]
            r == scenario.body[2]
        IN IF Concatenates
           THEN (err = NoErr) <=> ({KindOf(l), KindOf(r)} \cap {"array", "object"} = {})
           ELSE IF ~NumberOf(l).ok \/ ~NumberOf(r).ok THEN err # NoErr
           ELSE IF scenario.kind = "/" /\ NumberOf(r).n = 0
           THEN err = Errorf("division by zero")
           ELSE /\ err = NoErr
                /\ HasDocField(1, "r")
                /\ DocField(1, "r") =
                     NewNumber(Calculated(scenario.kind, NumberOf(l).n, NumberOf(r).n))

\* r: true - 1  has given 0
C21_BoolIsSubtracted ==
    (Done /\ scenario.family = "ops" /\ scenario.kind = "-"
          /\ scenario.body = <<BooleanLiteral(TRUE), NumberLiteral(1)>>)
        => (err = NoErr /\ DocField(1, "r") = NewNumber(0))

(***************************************************************************)
(* C22: == and != compare by kind, then by value.  Values of different     *)
(* kinds are never equal; two strings, two numbers or two bools are equal  *)
(* iff their values are; null equals null; two arrays or two objects are   *)
(* equal iff they are the same container; and a != b is the negation of    *)
(* a == b.                                                                 *)
(* Whether the operands are equal is read off the syntax: two scalar       *)
(* literals are equal when they are the same literal, two identifiers      *)
(* when they name the same container, and a container literal makes a      *)
(* container of its own.                                                   *)
(***************************************************************************)
\* the container an identifier of EqualityPool names
Names(node) == IF node.s \in {"v", "w"} THEN "the array" ELSE "the object"

SameValue(l, r) ==
    CASE l.type = "Identifier" /\ r.type = "Identifier" -> Names(l) = Names(r)
      [] l.type \in {"Identifier", "Array", "Object"}   -> FALSE
      [] r.type \in {"Identifier", "Array", "Object"}   -> FALSE
      [] OTHER                                          -> l = r

C22_EqualityByKindThenValue ==
    (Done /\ scenario.family = "eq") =>
        /\ err = NoErr
        /\ HasDocField(1, "r")
        /\ DocField(1, "r") =
             NewBool(IF scenario.kind = "==" THEN SameValue(scenario.body[1], scenario.body[2])
                     ELSE ~SameValue(scenario.body[1], scenario.body[2]))

\* v == w has given true, v and w naming one array
C22_Witness ==
    /\ Succeeded
    /\ scenario.family = "eq"
    /\ scenario.kind = "=="
    /\ scenario.body = <<Identifier("v"), Identifier("w")>>
    /\ DocField(1, "r") = NewBool(TRUE)

(***************************************************************************)
(* A program from source to result: parser.New(source).Parse() and then    *)
(* EvalDocument of the Document, as eval_test.go's evalWithScope does.     *)
(* The specification runs the actions of the parser, hands the Document    *)
(* over, and runs the actions of EvalDocument.                             *)
(* The sources are the sequences of up to MaxLines of these lines:         *)
(*   1  define("t") 1                                                      *)
(*   2  define("u") include("t")                                           *)
(*   3  a: include("t")                                                    *)
(*   4  b: include("u")                                                    *)
(*   5  c: include("g")                                                    *)
(*   6  (an empty line)                                                    *)
(* scenario.body is the source and scenario.xs the numbers of its lines.   *)
(***************************************************************************)
MaxLines == 3

ProgramLines ==
    <<<<"d", "e", "f", "i", "n", "e", "(", "\"", "t", "\"", ")", " ", "1">>,
      <<"d", "e", "f", "i", "n", "e", "(", "\"", "u", "\"", ")", " ", "i", "n", "c", "l", "u", "d", "e", "(", "\"", "t", "\"", ")">>,
      <<"a", ":", " ", "i", "n", "c", "l", "u", "d", "e", "(", "\"", "t", "\"", ")">>,
      <<"b", ":", " ", "i", "n", "c", "l", "u", "d", "e", "(", "\"", "u", "\"", ")">>,
      <<"c", ":", " ", "i", "n", "c", "l", "u", "d", "e", "(", "\"", "g", "\"", ")">>,
      <<>>>>

RECURSIVE JoinLines(_)
JoinLines(xs) ==
    IF xs = <<>> THEN <<>>
    ELSE IF Len(xs) = 1 THEN ProgramLines[xs[1]]
    ELSE ProgramLines[xs[1]] \o <<"\n">> \o JoinLines(Tail(xs))

ProgramScenarios ==
    {Scenario("order", "", "", JoinLines(xs), xs, <<>>, <<>>, FALSE) :
        xs \in SeqsUpTo(1..Len(ProgramLines), MaxLines) \ {<<>>}}

InitProgram ==
    /\ scenario \in ProgramScenarios
    /\ parser = [NoParser EXCEPT !.lexer = NewLexer(scenario.body)]
    /\ pc = "New"
    /\ doc = Document(<<>>, <<>>)
    /\ st = EmptyStore
    /\ idx = 1
    /\ err = NoParseError
    /\ result = NoResult

\* evalWithScope: Parse has returned the Document; EvalDocument is called with
\* it and a fresh scope
CallEvalDocument ==
    /\ pc = "parsed"
    /\ st' = HostStore(scenario)
    /\ pc' = "define"
    /\ idx' = 1
    /\ err' = NoErr
    /\ UNCHANGED <<scenario, doc, result, parser>>

NextProgram ==
    \/ CallNew
    \/ ParseSkip
    \/ ParseDefinition
    \/ ParseStatement
    \/ ParseReturns
    \/ CallEvalDocument
    \/ DefineTemplates
    \/ EvalBodyStatement
    \/ ReturnDocuments

SpecProgram == InitProgram /\ [][NextProgram]_vars

(***************************************************************************)
(* C23: all definitions are registered before any body statement runs.  An *)
(* include resolves every template defined anywhere in the document,       *)
(* before or after the include in the source, also when the include is     *)
(* evaluated inside another template's body; an include of a name that no  *)
(* definition registers is an "undefined template" error.                  *)
(***************************************************************************)
OrderRun == scenario.family = "order"

\* some line of the source defines the template
Defined(name) ==
    \E i \in 1..Len(scenario.xs) :
        scenario.xs[i] = (IF name = "t" THEN 1 ELSE IF name = "u" THEN 2 ELSE 0)

\* the include of line number n resolves
Resolves(n) ==
    CASE n = 3 -> Defined("t")
      [] n = 4 -> Defined("u") /\ Defined("t")
      [] n = 5 -> FALSE
      [] OTHER -> TRUE

KeyOfLine(n) == CASE n = 3 -> "a" [] n = 4 -> "b" [] OTHER -> "c"

C23_DefinitionsRegisteredBeforeBody ==
    OrderRun =>
      /\ pc \notin {"failed", "panic"}
      /\ pc \in {"body", "done"} =>
            \A name \in {"t", "u"} : Defined(name) <=> GetTemplate(st, rootScope, name).ok
      /\ pc = "done" =>
            IF \A i \in 1..Len(scenario.xs) : Resolves(scenario.xs[i])
            THEN /\ err = NoErr
                 /\ result.ok
                 /\ \A i \in 1..Len(scenario.xs) :
                       scenario.xs[i] \in {3, 4} =>
                          /\ HasDocField(1, KeyOfLine(scenario.xs[i]))
                          /\ DocField(1, KeyOfLine(scenario.xs[i])) = NewNumber(1)
            ELSE /\ err # NoErr
                 /\ err.msg = "undefined template"
                 /\ err.typed

\* b: include("u") / define("u") include("t") / define("t") 1  has given b = 1
C23_Witness ==
    /\ OrderRun
    /\ scenario.xs = <<4, 2, 1>>
    /\ pc = "done"
    /\ err = NoErr
    /\ DocField(1, "b") = NewNumber(1)

(***************************************************************************)
(* The Scope API (runtime/scope.go) as a state machine: a host creates     *)
(* scopes, registers templates on them and looks templates up.  result     *)
(* holds the registrations made so far, doc the last lookup.               *)
(***************************************************************************)
MaxScopes == 3

MaxDefs == 2

TemplateNames == {"parent", "child"}

\* a lookup: the scope and the name asked, the registrations made before it,
\* and what GetTemplate returned
NoLookup ==
    [asked |-> FALSE, scope |-> 0, name |-> "", defs |-> <<>>, ok |-> FALSE,
     tmpl |-> NewTemplate("", <<>>)]

InitScope ==
    /\ scenario = Scenario("scope", "", "", <<>>, <<>>, <<>>, <<>>, FALSE)
    /\ parser = NoParser
    /\ pc = "scope"
    /\ doc = NoLookup
    /\ st = EmptyStore
    /\ idx = 0
    /\ err = NoErr
    /\ result = <<>>

\* NewScope(nil) or NewScope(parent) for a scope made earlier
CallNewScope ==
    /\ pc = "scope"
    /\ Len(st.scopes) < MaxScopes
    /\ \E parent \in 0..Len(st.scopes) : st' = NewScope(st, parent).st
    /\ UNCHANGED <<scenario, doc, pc, idx, err, result, parser>>

\* s.DefineTemplate(name, NewTemplate(name, nil, file))
CallDefineTemplate ==
    /\ pc = "scope"
    /\ Len(result) < MaxDefs
    /\ \E s \in 1..Len(st.scopes), name \in TemplateNames :
          /\ st' = DefineTemplate(st, s, name, NewTemplate(name, <<>>))
          /\ result' = Append(result, [scope |-> s, name |-> name])
    /\ UNCHANGED <<scenario, doc, pc, idx, err, parser>>

\* s.GetTemplate(name)
CallGetTemplate ==
    /\ pc = "scope"
    /\ \E s \in 1..Len(st.scopes), name \in TemplateNames :
          LET got == GetTemplate(st, s, name)
          IN /\ doc' = [asked |-> TRUE, scope |-> s, name |-> name, defs |-> result,
                      ok |-> got.ok, tmpl |-> got.tmpl]
             /\ err' = IF got.ok THEN NoErr ELSE Errorf("undefined template")
    /\ UNCHANGED <<scenario, st, pc, idx, result, parser>>

NextScope ==
    \/ CallNewScope
    \/ CallDefineTemplate
    \/ CallGetTemplate

SpecScope == InitScope /\ [][NextScope]_vars

\* scope a is scope s or one of its ancestors
RECURSIVE IsSelfOrAncestor(_, _)
IsSelfOrAncestor(a, s) ==
    IF s = 0 THEN FALSE
    ELSE IF a = s THEN TRUE
    ELSE IsSelfOrAncestor(a, st.scopes[s].parent)

\* the scope made with NewScope(nil) from which scope s descends
RECURSIVE RootOf(_)
RootOf(s) == IF st.scopes[s].parent = 0 THEN s ELSE RootOf(st.scopes[s].parent)

(***************************************************************************)
(* C24: a template registered on a child scope is not visible from its     *)
(* parent: a lookup finds a name exactly when the name was registered on   *)
(* the scope asked or on one of its ancestors.                             *)
(***************************************************************************)
C24_ChildTemplateHiddenFromParent ==
    doc.asked =>
        (doc.ok <=> \E i \in 1..Len(doc.defs) :
                        /\ doc.defs[i].name = doc.name
                        /\ IsSelfOrAncestor(doc.defs[i].scope, doc.scope))

\* what the code does: NewScope(parent) links the child to the parent's
\* template map, so a lookup finds every name registered on any scope that
\* descends from the same root, and the template found has that name
C24_LinkedScopesShareTemplates ==
    doc.asked =>
        /\ doc.ok <=> \E i \in 1..Len(doc.defs) :
                         /\ doc.defs[i].name = doc.name
                         /\ RootOf(doc.defs[i].scope) = RootOf(doc.scope)
        /\ doc.ok => doc.tmpl.Name = doc.name
        /\ doc.ok <=> err = NoErr
        /\ ~doc.ok => err.msg = "undefined template"

\* parent.GetTemplate("child") has succeeded after child.DefineTemplate("child", t)
C24_ParentSeesChildTemplate ==
    /\ doc.asked /\ doc.ok /\ doc.name = "child" /\ doc.scope = 1
    /\ Len(st.scopes) >= 2 /\ st.scopes[2].parent = 1
    /\ doc.defs = <<[scope |-> 2, name |-> "child"]>>

\* the node the statement parses to
StatementNode(kind) ==
    CASE kind = "key-value" -> KeyValueStatement("a", NumberLiteral(1))
      [] kind = "member"    -> KeyValueStatement("a", MemberExpression(Identifier("x"), "y"))
      [] kind = "let"       -> LetStatement("x", NumberLiteral(1))
      [] kind = "spread"    -> SpreadStatement(Identifier("v"))

\* the Document of the source with the statement in its context
CommentDocument(sc) ==
    LET stmt == StatementNode(sc.kind)
    IN CASE sc.xs[1] = "document" ->
                Document(<<stmt, KeyValueStatement("b", NumberLiteral(2))>>, <<>>)
         [] sc.xs[1] = "block" ->
                Document(<<IfStatement(Identifier("c"), <<stmt>>, <<>>)>>, <<>>)
         [] sc.xs[1] = "object" ->
                Document(<<KeyValueStatement("o", Object(<<stmt>>))>>, <<>>)
         [] sc.xs[1] = "end" -> Document(<<stmt>>, <<>>)

CommentRun == scenario.family = "comment" /\ pc \in {"parsed", "failed", "panic"}

(***************************************************************************)
(* C25: a comment is a statement separator wherever a newline is: a        *)
(* statement followed on the same line by a comment parses to the same AST *)
(* as the statement followed by a newline, a key-value included.           *)
(***************************************************************************)
C25_CommentSeparatesLikeNewline ==
    CommentRun => pc = "parsed" /\ doc = CommentDocument(scenario)

\* what the code does: after the value of a key-value a comment is an error;
\* after every other statement it separates as a newline does
C25_CommentAfterValueIsRejected ==
    CommentRun =>
        IF scenario.kind2 = "comment" /\ scenario.kind \in {"key-value", "member"}
        THEN /\ pc = "failed"
             /\ err.typed
             /\ err.msg = "unexpected token after expression"
        ELSE pc = "parsed" /\ doc = CommentDocument(scenario)

\* a: 1 # c  followed by  b: 2  has been rejected
C25_KeyValueCommentRejected ==
    /\ CommentRun
    /\ scenario.kind = "key-value" /\ scenario.kind2 = "comment" /\ scenario.xs = <<"document">>
    /\ pc = "failed"

(***************************************************************************)
(* A call of a built-in function as a state machine: the host has made an  *)
(* array [1, 1, 2], an empty array and an object {a: 1, b: 2}, and calls   *)
(* Registry[name] with up to MaxArgs arguments.  scenario names the        *)
(* function and the arguments, result holds the value returned.            *)
(***************************************************************************)
MaxArgs == 3

BuiltinNames ==
    {"nindent", "trunc", "initial", "rest", "append", "prepend", "concat", "reverse", "uniq",
     "repeat", "pick", "omit", "merge", "set"}

BuiltinStore ==
    LET a == NewArray(EmptyStore, <<NewNumber(1), NewNumber(1), NewNumber(2)>>)
        b == NewArray(a.st, <<>>)
        o == NewObject(b.st, <<[k |-> "a", v |-> NewNumber(1)], [k |-> "b", v |-> NewNumber(2)]>>)
    IN o.st

BuiltinArguments ==
    {NewNumber(-1), NewNumber(2), NewString("a"), NewNull,
     ArrayValue(1), ArrayValue(2), ObjectValue(3)}

BuiltinScenarios ==
    {Scenario("builtin", name, "", <<>>, args, <<>>, <<>>, FALSE) :
        name \in BuiltinNames, args \in SeqsUpTo(BuiltinArguments, MaxArgs)}

InitBuiltin ==
    /\ scenario \in BuiltinScenarios
    /\ parser = NoParser
    /\ pc = "call"
    /\ doc = Document(<<>>, <<>>)
    /\ st = BuiltinStore
    /\ idx = 1
    /\ err = NoErr
    /\ result = NilValue

\* value, err := Registry[name](args...)
CallBuiltin ==
    /\ pc = "call"
    /\ LET r == Registry(scenario.kind, st, scenario.xs)
       IN /\ st' = r.st
          /\ IF r.err = stringsRepeatPanic
             THEN pc' = "panic" /\ err' = err /\ result' = result
             ELSE pc' = "returned" /\ err' = r.err /\ result' = r.val
    /\ UNCHANGED <<scenario, doc, idx, parser>>

NextBuiltin == CallBuiltin

SpecBuiltin == InitBuiltin /\ [][NextBuiltin]_vars

\* the number of arguments a fixed-arity function takes
FixedArity ==
    [name \in {"nindent", "trunc", "repeat"} |-> 2] @@
    [name \in {"initial", "rest", "reverse", "uniq"} |-> 1] @@
    [name \in {"set"} |-> 3]

\* the count argument of a call of repeat, nindent or trunc with two arguments
CountArgument == IF scenario.kind = "repeat" THEN scenario.xs[1] ELSE scenario.xs[2]

TextArgument == IF scenario.kind = "repeat" THEN scenario.xs[2] ELSE scenario.xs[1]

(***************************************************************************)
(* C26: every built-in function is total: for every argument list the call *)
(* returns either a value or an error and never aborts, negative counts    *)
(* passed to repeat, nindent and trunc included; a fixed-arity built-in    *)
(* called with a different number of arguments returns an error.           *)
(***************************************************************************)
C26_BuiltinsAreTotal ==
    scenario.family = "builtin" =>
        /\ pc # "panic"
        /\ pc = "returned" =>
              /\ (result = NilValue) <=> (err # NoErr)
              /\ (scenario.kind \in DOMAIN FixedArity
                    /\ Len(scenario.xs) # FixedArity[scenario.kind]) => err # NoErr

\* what the code does: repeat and nindent abort on a negative count; every
\* other call returns either a value or an error, trunc with a negative
\* count returns the empty string, and an arity mismatch is an error
C26_NegativeCountAborts ==
    scenario.family = "builtin" /\ pc # "call" =>
        /\ pc = "panic" <=>
              /\ scenario.kind \in {"repeat", "nindent"}
              /\ Len(scenario.xs) = 2
              /\ runtimeToString(TextArgument).ok
              /\ ToNumber(CountArgument).ok
              /\ ToNumber(CountArgument).n < 0
        /\ pc = "returned" =>
              /\ (result = NilValue) <=> (err # NoErr)
              /\ (scenario.kind \in DOMAIN FixedArity
                    /\ Len(scenario.xs) # FixedArity[scenario.kind]) => err # NoErr
              /\ (scenario.kind = "trunc" /\ Len(scenario.xs) = 2
                    /\ runtimeToString(TextArgument).ok /\ CountArgument = NewNumber(-1))
                 => result = NewString("")

\* repeat(-1, "a") has aborted
C26_RepeatAborted ==
    /\ scenario.family = "builtin"
    /\ scenario.kind = "repeat"
    /\ scenario.xs = <<NewNumber(-1), NewString("a")>>
    /\ pc = "panic"

\* the functions that build a container from their arguments
CopyingBuiltins ==
    {"set", "append", "prepend", "concat", "merge", "pick", "omit", "reverse", "initial",
     "rest", "uniq"}

\* the containers of the host, which are the only containers passed as arguments
ArgumentContainers == 1..Len(BuiltinStore.heap)

(***************************************************************************)
(* C27: no built-in function mutates its arguments: after a call of set,   *)
(* append, prepend, concat, merge, pick, omit, reverse, initial, rest or   *)
(* uniq every argument array and object has the elements and fields it had *)
(* before the call, and a container returned is not one of the arguments.  *)
(***************************************************************************)
C27_ArgumentsAreNotMutated ==
    (scenario.family = "builtin" /\ scenario.kind \in CopyingBuiltins /\ pc = "returned") =>
        /\ \A id \in ArgumentContainers : st.heap[id] = BuiltinStore.heap[id]
        /\ err = NoErr =>
              /\ result.t \in {"array", "object"}
              /\ result.n \notin ArgumentContainers
              /\ result.n = Len(st.heap)

\* set(o, "a", -1) has returned a new object {a: -1, b: 2}; o is still {a: 1, b: 2}
C27_Witness ==
    /\ scenario.family = "builtin"
    /\ scenario.kind = "set"
    /\ scenario.xs = <<ObjectValue(3), NewString("a"), NewNumber(-1)>>
    /\ pc = "returned"
    /\ err = NoErr
    /\ result = ObjectValue(4)
    /\ ObjectGet(st, 4, "a").val = NewNumber(-1)
    /\ ObjectGet(st, 4, "b").val = NewNumber(2)
    /\ ObjectGet(st, 3, "a").val = NewNumber(1)

(***************************************************************************)
(* The lexer as a state machine: NewLexer(input) and then calls of         *)
(* NextToken, up to two calls more than the input has bytes.  The inputs   *)
(* are every sequence of up to MaxInput bytes of Alphabet and some longer  *)
(* ones:  @a   a & b   "a\nb" c   """a\nb""" c   """\n   # c\na            *)
(* doc holds the calls made so far: the token returned, the offset of its  *)
(* first byte and the offset of the lexer after the call.                  *)
(***************************************************************************)
LongInputs ==
    {<<"@", "a">>,
     <<"a", " ", "&", " ", "b">>,
     <<"\"", "a", "\n", "b", "\"", " ", "c">>,
     <<"\"", "\"", "\"", "a", "\n", "b", "\"", "\"", "\"", " ", "c">>,
     <<"\"", "\"", "\"", "\n">>,
     <<"#", " ", "c", "\n", "a">>}

LexScenarios ==
    {Scenario("lex", "", "", input, <<>>, <<>>, <<>>, FALSE) : input \in Sources \cup LongInputs}

InitLexer ==
    /\ scenario \in LexScenarios
    /\ parser = [NoParser EXCEPT !.lexer = NewLexer(scenario.body)]
    /\ pc = "lex"
    /\ doc = <<>>
    /\ st = EmptyStore
    /\ idx = 0
    /\ err = NoParseError
    /\ result = NoToken

\* token := l.NextToken()
CallNextToken ==
    /\ pc = "lex"
    /\ idx < Len(scenario.body) + 2
    /\ LET next == NextToken(parser.lexer)
       IN IF next.panicked
          THEN pc' = "panic" /\ UNCHANGED <<parser, doc, idx, result>>
          ELSE /\ parser' = [parser EXCEPT !.lexer = next.lexer]
               /\ doc' = Append(doc, [token |-> next.token,
                                      start |-> skipWhitespace(parser.lexer).pos,
                                      end   |-> next.lexer.pos])
               /\ idx' = idx + 1
               /\ result' = next.token
               /\ pc' = pc
    /\ UNCHANGED <<scenario, st, err>>

NextLexer == CallNextToken

SpecLexer == InitLexer /\ [][NextLexer]_vars

LexRun == scenario.family = "lex"

(***************************************************************************)
(* C28: end-of-input is absorbing: NextToken returns a token of kind       *)
(* end-of-input only when the whole input has been consumed, and once it   *)
(* has returned end-of-input every later call returns end-of-input, also   *)
(* for inputs with a byte that starts no token.                            *)
(***************************************************************************)
C28_EndOfInputIsAbsorbing ==
    LexRun =>
        \A i \in 1..Len(doc) :
            doc[i].token.Type = "TokenEOF" =>
                /\ doc[i].start = Len(scenario.body)
                /\ \A j \in i..Len(doc) : doc[j].token.Type = "TokenEOF"

\* what the code does: a call made when only blanks are left returns
\* end-of-input with an empty value, and so does every later call; a byte
\* that starts no token is returned as an end-of-input token whose value is
\* that byte, and the calls after it return the tokens that follow
C28_EndOfInputAtEnd ==
    LexRun =>
        \A i \in 1..Len(doc) :
            /\ doc[i].start = Len(scenario.body) =>
                  \A j \in i..Len(doc) : doc[j].token = Token("TokenEOF", <<>>, doc[j].token.Line, doc[j].token.Col)
            /\ (doc[i].token.Type = "TokenEOF" /\ doc[i].start < Len(scenario.body)) =>
                  /\ doc[i].token.Value = <<scenario.body[doc[i].start + 1]>>
                  /\ doc[i].end = doc[i].start + 1

\* for the input @a the first call has returned end-of-input, the second an identifier
C28_TokenAfterEndOfInput ==
    /\ LexRun
    /\ scenario.body = <<"@", "a">>
    /\ Len(doc) >= 2
    /\ doc[1].token.Type = "TokenEOF"
    /\ doc[2].token.Type = "TokenIdent"

\* the 1-indexed line of the byte at offset k
LineAt(input, k) == 1 + Cardinality({i \in 1..k : input[i] = "\n"})

\* the 1-indexed column of the byte at offset k
ColAt(input, k) ==
    LET newlines == {i \in 1..k : input[i] = "\n"}
    IN IF newlines = {} THEN k + 1
       ELSE k + 1 - (CHOOSE i \in newlines : \A j \in newlines : j <= i)

(***************************************************************************)
(* C30: every token carries the 1-indexed position of its first byte:      *)
(* Line >= 1, Col >= 1, Line is 1 plus the number of newlines before the   *)
(* first byte and Col is 1 plus the number of bytes since the preceding    *)
(* newline, for single-line tokens, for triple-quoted strings and for      *)
(* double-quoted strings that span several lines.                          *)
(***************************************************************************)
C30_TokenPositionIsFirstByte ==
    LexRun =>
        \A i \in 1..Len(doc) :
            /\ doc[i].token.Line >= 1
            /\ doc[i].token.Col >= 1
            /\ doc[i].token.Line = LineAt(scenario.body, doc[i].start)
            /\ doc[i].token.Col = ColAt(scenario.body, doc[i].start)

\* the token is a string that opens with one double quote
IsQuoted(i) ==
    /\ doc[i].token.Type = "TokenString"
    /\ ~(/\ doc[i].start + 3 <= Len(scenario.body)
         /\ SubSeq(scenario.body, doc[i].start + 1, doc[i].start + 3) = <<"\"", "\"", "\"">>)

\* what the code does: the column is the column of the first byte; the line
\* is the line of the first byte, except for a double-quoted string, whose
\* line is the line of its last byte
C30_QuotedStringLineIsLastLine ==
    LexRun =>
        \A i \in 1..Len(doc) :
            /\ doc[i].token.Line >= 1
            /\ doc[i].token.Col >= 1
            /\ doc[i].token.Col = ColAt(scenario.body, doc[i].start)
            /\ doc[i].token.Line = IF IsQuoted(i) THEN LineAt(scenario.body, doc[i].end)
                                   ELSE LineAt(scenario.body, doc[i].start)

\* for the input "a\nb" c the string token, which starts on line 1, has line 2
C30_QuotedStringOnLastLine ==
    /\ LexRun
    /\ scenario.body = <<"\"", "a", "\n", "b", "\"", " ", "c">>
    /\ Len(doc) >= 1
    /\ doc[1].token.Type = "TokenString"
    /\ doc[1].start = 0
    /\ doc[1].token.Line = 2

\* the text a piece stands for in a literal part
PieceText(piece) == IF piece = "text" THEN "a" ELSE "${"

\* the parts of the string: every run of text and escapes is one literal
\* part, every interpolation is the identifier x; text is the literal part
\* read so far
RECURSIVE PartsOf(_, _)
PartsOf(pieces, text) ==
    IF pieces = <<>> THEN IF text = "" THEN <<>> ELSE <<StringLiteral(text)>>
    ELSE IF Head(pieces) = "expr"
    THEN (IF text = "" THEN <<>> ELSE <<StringLiteral(text)>>)
         \o <<Identifier("x")>> \o PartsOf(Tail(pieces), "")
    ELSE PartsOf(Tail(pieces), text \o PieceText(Head(pieces)))

\* the parts the code makes: an escape that is followed, later in the
\* string, by an interpolation drops the literal text read so far and itself
RECURSIVE PartsMade(_, _)
PartsMade(pieces, text) ==
    IF pieces = <<>> THEN IF text = "" THEN <<>> ELSE <<StringLiteral(text)>>
    ELSE IF Head(pieces) = "expr"
    THEN (IF text = "" THEN <<>> ELSE <<StringLiteral(text)>>)
         \o <<Identifier("x")>> \o PartsMade(Tail(pieces), "")
    ELSE IF Head(pieces) = "escape" /\ \E i \in 1..Len(pieces) : pieces[i] = "expr"
    THEN PartsMade(Tail(pieces), "")
    ELSE PartsMade(Tail(pieces), text \o PieceText(Head(pieces)))

InterpolationRun == scenario.family = "interp" /\ pc \in {"parsed", "failed", "panic"}

(***************************************************************************)
(* C29: splitting an interpolated string loses no text: the literal parts  *)
(* and the sub-expressions, in order, cover the whole body; every          *)
(* character outside the interpolations is in exactly one literal part and *)
(* every escaped \${ is there as ${, also when an escaped \${ precedes an  *)
(* interpolation in the same string.                                       *)
(***************************************************************************)
C29_SplitLosesNoText ==
    InterpolationRun =>
        /\ pc = "parsed"
        /\ doc.Body = <<KeyValueStatement("r", InterpolatedString(PartsOf(scenario.xs, "")))>>

\* what the code does: the text before an escaped \${ and the escaped \${
\* itself are dropped when an interpolation follows later in the string
C29_TextBeforeEscapeIsDropped ==
    InterpolationRun =>
        /\ pc = "parsed"
        /\ doc.Body = <<KeyValueStatement("r", InterpolatedString(PartsMade(scenario.xs, "")))>>

\* r: "a\${${x}" has been parsed to the one part x
C29_EscapedTextDropped ==
    /\ InterpolationRun
    /\ scenario.xs = <<"text", "escape", "expr">>
    /\ pc = "parsed"
    /\ doc.Body = <<KeyValueStatement("r", InterpolatedString(<<Identifier("x")>>))>>

====
